---- MODULE Spec2Model ----
(***************************************************************************)
(* Conversation phase machine of the Aduro health assistant:               *)
(* Orchestrator.handle_message and the collaborators it drives             *)
(* (GreeterProfiler, ProfileUpdater, CGMCollector, MealPlanner), the       *)
(* profile-field validator, and TriageAgent.process_input.                 *)
(*                                                                         *)
(* Text is modelled as a sequence of one-character strings so that         *)
(* strip(), lower(), the regular expressions and startswith() are computed *)
(* rather than assumed.  All components are taken to share one users table *)
(* (the deployment the source assumes: db/users.db).                       *)
(***************************************************************************)
EXTENDS Integers, Sequences, FiniteSets, TLC

----------------------------------------------------------------------------
(* Text helpers *)

Whitespace == {" "}

UpperChars == <<"A","B","C","D","E","F","G","H","I","J","K","L","M",
                "N","O","P","Q","R","S","T","U","V","W","X","Y","Z">>

LowerChars == <<"a","b","c","d","e","f","g","h","i","j","k","l","m",
                "n","o","p","q","r","s","t","u","v","w","x","y","z">>

DigitChars == <<"0","1","2","3","4","5","6","7","8","9">>

LowerChar(c) ==
    IF \E i \in 1..26 : UpperChars[i] = c
    THEN LowerChars[CHOOSE i \in 1..26 : UpperChars[i] = c]
    ELSE c

\* str.lower()
Lower(s) == [i \in 1..Len(s) |-> LowerChar(s[i])]

\* str.strip()
Strip(s) ==
    IF \A i \in 1..Len(s) : s[i] \in Whitespace
    THEN << >>
    ELSE LET a == CHOOSE i \in 1..Len(s) :
                     /\ s[i] \notin Whitespace
                     /\ \A j \in 1..(i-1) : s[j] \in Whitespace
             b == CHOOSE i \in 1..Len(s) :
                     /\ s[i] \notin Whitespace
                     /\ \A j \in (i+1)..Len(s) : s[j] \in Whitespace
         IN SubSeq(s, a, b)

\* sub in s
Contains(sub, s) ==
    \E i \in 1..(Len(s) - Len(sub) + 1) : SubSeq(s, i, i + Len(sub) - 1) = sub

\* s.startswith(p)
StartsWith(s, p) == Len(s) >= Len(p) /\ SubSeq(s, 1, Len(p)) = p

IsDigit(c) == \E i \in 1..10 : DigitChars[i] = c

DigitVal(c) == (CHOOSE i \in 1..10 : DigitChars[i] = c) - 1

----------------------------------------------------------------------------
(* Profile fields and the field validator (profile_updater.py) *)

\* column order of the orchestrator's and the greeter's required_fields lists
REQUIRED_FIELDS ==
    <<"first_name", "last_name", "city", "email", "date_of_birth", "dietary_preference">>

RequiredSet == {REQUIRED_FIELDS[i] : i \in 1..Len(REQUIRED_FIELDS)}

OptionalText == {"medical_conditions", "physical_limitations"}

\* keys of ALLOWED_FIELDS
ALLOWED_FIELDS == RequiredSet \cup OptionalText

\* ALLOWED_FIELDS[f]["required"]
FieldRequired(f) == f \in {"first_name", "last_name", "city", "email", "date_of_birth"}

DietValues == { <<"v","e","g","e","t","a","r","i","a","n">>,
                <<"n","o","n","-","v","e","g","e","t","a","r","i","a","n">>,
                <<"v","e","g","a","n">> }

\* lambda x: bool(x.strip()) and len(x.strip()) >= 2
NameValidator(x) == Strip(x) # << >> /\ Len(Strip(x)) >= 2

\* re.match(r'^[^@]+@[^@]+\.[^@]+$', x)
EmailValidator(x) ==
    \E a \in 2..Len(x) :
        /\ x[a] = "@"
        /\ \A i \in 1..Len(x) : (x[i] = "@") => (i = a)
        /\ \E d \in (a+2)..(Len(x)-1) : x[d] = "."

IsLeap(y) == (y % 4 = 0 /\ y % 100 # 0) \/ (y % 400 = 0)

DaysInMonth(y, m) ==
    IF m = 2 THEN (IF IsLeap(y) THEN 29 ELSE 28)
    ELSE IF m \in {4, 6, 9, 11} THEN 30 ELSE 31

\* re.match(r'^\d{4}-\d{2}-\d{2}$', x)
DateShape(x) ==
    /\ Len(x) = 10
    /\ x[5] = "-" /\ x[8] = "-"
    /\ \A i \in {1,2,3,4,6,7,9,10} : IsDigit(x[i])

\* datetime.strptime(x, '%Y-%m-%d') succeeds
DateParses(x) ==
    LET y == 1000*DigitVal(x[1]) + 100*DigitVal(x[2]) + 10*DigitVal(x[3]) + DigitVal(x[4])
        m == 10*DigitVal(x[6]) + DigitVal(x[7])
        d == 10*DigitVal(x[9]) + DigitVal(x[10])
    IN  y >= 1 /\ m \in 1..12 /\ d >= 1 /\ d <= DaysInMonth(y, m)

\* the date_of_birth lambda; strptime raising is caught by validate_field_value
DateValidator(x) == DateShape(x) /\ DateParses(x)

\* lambda x: x.lower() in ['vegetarian', 'non-vegetarian', 'vegan']
DietValidator(x) == Lower(x) \in DietValues

FieldValidator(f, x) ==
    CASE f \in {"first_name", "last_name", "city"} -> NameValidator(x)
      [] f = "email"              -> EmailValidator(x)
      [] f = "date_of_birth"      -> DateValidator(x)
      [] f = "dietary_preference" -> DietValidator(x)
      [] OTHER                    -> TRUE

\* Python None and text values, as the pair (is None, text)
None   == [null |-> TRUE,  s |-> << >>]

Text(s) == [null |-> FALSE, s |-> s]

\* Python truthiness of a str-or-None
Truthy(v) == ~v.null /\ v.s # << >>

\* the field's validator raises on x: datetime.strptime on a text of the
\* YYYY-MM-DD shape that is no calendar date (ValueError)
ValidatorRaises(f, x) == f = "date_of_birth" /\ DateShape(x) /\ ~DateParses(x)

\* what validate_field_value gives: (ok, cleaned value) or (False, error kind),
\* or an exception that leaves the function
Outcome(ok, value, err, raised) == [ok |-> ok, value |-> value, err |-> err, raised |-> raised]

\* validate_field_value without the early return for an empty optional value
validate_field_value_KeepsEmpty(f, v) ==
    IF f \notin ALLOWED_FIELDS THEN Outcome(FALSE, None, "invalid_field", FALSE)
    ELSE IF FieldRequired(f) /\ ~Truthy(v) THEN Outcome(FALSE, None, "required", FALSE)
    ELSE IF v.null THEN Outcome(TRUE, None, "none", FALSE)
    ELSE LET c == Strip(v.s) IN
         IF c # << >> /\ ValidatorRaises(f, c) THEN Outcome(FALSE, None, "exception", FALSE)
         ELSE IF c # << >> /\ ~FieldValidator(f, c) THEN Outcome(FALSE, None, "rule", FALSE)
              ELSE Outcome(TRUE, Text(c), "none", FALSE)

\* validate_field_value(field_name, field_value) of aduro_agents/profile_updater.py;
\* the validator runs inside try/except and only on a non-empty value
validate_field_value(f, v) ==
    IF f \notin ALLOWED_FIELDS THEN Outcome(FALSE, None, "invalid_field", FALSE)
    ELSE IF FieldRequired(f) /\ ~Truthy(v) THEN Outcome(FALSE, None, "required", FALSE)
    ELSE IF v.null THEN Outcome(TRUE, None, "none", FALSE)
    ELSE LET c == Strip(v.s) IN
         IF c = << >> /\ ~FieldRequired(f) THEN Outcome(TRUE, None, "none", FALSE)
         ELSE IF c # << >> /\ ValidatorRaises(f, c)
              THEN Outcome(FALSE, None, "exception", FALSE)
         ELSE IF c # << >> /\ ~FieldValidator(f, c)
              THEN Outcome(FALSE, None, "rule", FALSE)
              ELSE Outcome(TRUE, Text(c), "none", FALSE)

\* str(None)
NoneText == <<"N","o","n","e">>

\* validate_field_value(field_name, field_value) of agents/profile_updater.py:
\* the validator runs on every value, outside any try
legacy_validate_field_value(f, v) ==
    IF f \notin ALLOWED_FIELDS THEN Outcome(FALSE, None, "invalid_field", FALSE)
    ELSE IF FieldRequired(f) /\ ~Truthy(v) THEN Outcome(FALSE, None, "required", FALSE)
    ELSE LET c == IF v.null THEN NoneText ELSE Strip(v.s) IN
         IF ValidatorRaises(f, c) THEN Outcome(FALSE, None, "none", TRUE)
         ELSE IF ~FieldValidator(f, c) THEN Outcome(FALSE, None, "rule", FALSE)
         ELSE Outcome(TRUE, Text(c), "none", FALSE)

----------------------------------------------------------------------------
(* Context dictionaries, response texts, the users table *)

Has(c, k) == k \in DOMAIN c

\* context.get(k, d)
Get(c, k, d) == IF Has(c, k) THEN c[k] ELSE d

\* context[k] = v
Put(c, k, v) == [x \in (DOMAIN c) \cup {k} |-> IF x = k THEN v ELSE c[x]]

\* a user_id value: an int n, or a non-int object such as the string "invalid"
IntId(n) == [int |-> TRUE, n |-> n]

NonIntId == [int |-> FALSE, n |-> 0]

\* A response text is a sequence of parts; a part records which sentence it is
\* (k), the field it names (f) and whether its lower-cased text contains one of
\* the words "success", "thank", "received" (mark).
Part(k, f, mark) == [k |-> k, f |-> f, mark |-> mark]

\* the first six characters of the text of a part
Head6(p) ==
    CASE p.k \in {"upd_no_user_id", "upd_no_field", "meal_auth", "meal_run_error"}
                                      -> <<"E","r","r","o","r",":">>
      [] p.k = "upd_ok"               -> <<"S","u","c","c","e","s">>
      [] p.k = "upd_invalid_field"    -> <<"I","n","v","a","l","i">>
      [] p.k = "upd_no_user"          -> <<"U","s","e","r"," ","w">>
      [] p.k = "upd_db_error"         -> <<"D","a","t","a","b","a">>
      [] p.k = "upd_exception"        -> <<"V","a","l","i","d","a">>
      [] p.k = "upd_required" /\ p.f = "first_name"    -> <<"F","i","r","s","t"," ">>
      [] p.k = "upd_required" /\ p.f = "last_name"     -> <<"L","a","s","t"," ","N">>
      [] p.k = "upd_required" /\ p.f = "city"          -> <<"C","i","t","y"," ","i">>
      [] p.k = "upd_required" /\ p.f = "email"         -> <<"E","m","a","i","l"," ">>
      [] p.k = "upd_required" /\ p.f = "date_of_birth" -> <<"D","a","t","e"," ","O">>
      [] p.k = "upd_rule" /\ p.f = "first_name"        -> <<"F","i","r","s","t"," ">>
      [] p.k = "upd_rule" /\ p.f = "last_name"         -> <<"L","a","s","t"," ","n">>
      [] p.k = "upd_rule" /\ p.f = "city"              -> <<"C","i","t","y"," ","m">>
      [] p.k = "upd_rule" /\ p.f \in {"email", "date_of_birth"}
                                                       -> <<"P","l","e","a","s","e">>
      [] p.k = "upd_rule" /\ p.f = "dietary_preference" -> <<"D","i","e","t","a","r">>
      [] OTHER                        -> <<"o","t","h","e","r"," ">>

\* response.startswith("Error:")
StartsWithError(resp) ==
    resp # << >> /\ StartsWith(Head6(resp[1]), <<"E","r","r","o","r",":">>)

\* a row of the users table: every column is a text or NULL
EmptyRow == [f \in ALLOWED_FIELDS |-> None]

\* get_missing_fields(profile): required fields that are absent or empty, in order
get_missing_fields(row) == SelectSeq(REQUIRED_FIELDS, LAMBDA f : ~Truthy(row[f]))

\* a read that is not keyed by the caller's user id: the first row of the table
ProfileOf_FirstRow(U, uid) ==
    IF DOMAIN U = {} THEN EmptyRow
    ELSE U[CHOOSE u \in DOMAIN U : \A v \in DOMAIN U : u <= v]

\* the profile dict the greeter reads: {} when there is no row
ProfileOf(U, uid) == IF uid \in DOMAIN U THEN U[uid] ELSE EmptyRow

----------------------------------------------------------------------------
(* ProfileUpdater *)

\* the special handling of dietary preference in ProfileUpdater.process_input
DietSynonym(s) ==
    LET l == Lower(s)
        vegetarian == <<"v","e","g","e","t","a","r","i","a","n">>
    IN
    IF l \in {<<"v","e","g">>, vegetarian} THEN vegetarian
    ELSE IF l \in { <<"n","o","n","-","v","e","g">>, <<"n","o","n"," ","v","e","g">>,
                    <<"n","o","n","v","e","g","e","t","a","r","i","a","n">> }
    THEN <<"n","o","n","-">> \o vegetarian
    ELSE l

\* _update_user_profile_impl: returns the new table, the message and whether
\* the call raised.  fault: "updater_connect" (sqlite3.connect raises, outside
\* the try), "updater_db" (sqlite3.Error inside the try, e.g. UNIQUE email).
update_user_profile_impl(U, uid, f, v0, fault) ==
    IF f \notin ALLOWED_FIELDS
    THEN [users |-> U, ok |-> FALSE, msg |-> Part("upd_invalid_field", f, FALSE), raised |-> FALSE]
    ELSE
    LET v == IF v0.null THEN v0 ELSE Text(Strip(v0.s))
        r == validate_field_value(f, v)
        val == IF ~Truthy(r.value) /\ ~FieldRequired(f) THEN None ELSE r.value
    IN
    IF ~r.ok
    THEN [users |-> U, ok |-> FALSE,
          msg |-> Part(CASE r.err = "required"  -> "upd_required"
                         [] r.err = "exception" -> "upd_exception"
                         [] OTHER               -> "upd_rule", f, FALSE),
          raised |-> FALSE]
    ELSE IF fault = "updater_connect"
    THEN [users |-> U, ok |-> FALSE, msg |-> Part("none", f, FALSE), raised |-> TRUE]
    ELSE IF fault = "updater_db"
    THEN [users |-> U, ok |-> FALSE, msg |-> Part("upd_db_error", f, FALSE), raised |-> FALSE]
    ELSE IF uid \notin DOMAIN U
    THEN [users |-> U, ok |-> FALSE, msg |-> Part("upd_no_user", f, FALSE), raised |-> FALSE]
    ELSE [users |-> [U EXCEPT ![uid][f] = val], ok |-> TRUE,
          msg |-> Part("upd_ok", f, TRUE), raised |-> FALSE]

\* ProfileUpdater.process_input(message, context)
UpdaterProcessInput(msg, c, U, fault) ==
    IF ~Has(c, "user_id")
    THEN [users |-> U, resp |-> <<Part("upd_no_user_id", "", FALSE)>>, raised |-> FALSE]
    ELSE IF ~Has(c, "field_to_update")
    THEN [users |-> U, resp |-> <<Part("upd_no_field", "", FALSE)>>, raised |-> FALSE]
    ELSE
    LET f  == c["field_to_update"]
        v0 == IF msg # << >> THEN Text(Strip(msg)) ELSE None
        v1 == IF f = "dietary_preference" /\ Truthy(v0) THEN Text(DietSynonym(v0.s)) ELSE v0
        r  == update_user_profile_impl(U, c["user_id"].n, f, v1, fault)
    IN [users |-> r.users, resp |-> <<r.msg>>, raised |-> r.raised]

----------------------------------------------------------------------------
(* GreeterProfiler *)

Greetings == { <<"h","i">>, <<"h","e","l","l","o">>, <<"h","e","y">> }

\* an updates dict that takes every input for the field
GreeterUpdate_Unchecked(field, msg) == Text(Strip(msg))

\* the updates dict the greeter builds for the first missing field: the value
\* to write, or None when the input is not taken for that field
GreeterUpdate(field, msg) ==
    CASE field = "dietary_preference" ->
             IF Lower(Strip(msg)) \in DietValues THEN Text(Lower(Strip(msg))) ELSE None
      [] field \in {"first_name", "last_name", "city"} -> Text(Strip(msg))
      [] field = "email" ->
             IF Contains(<<"@">>, msg) THEN Text(Strip(msg)) ELSE None
      [] field = "date_of_birth" ->
             IF Contains(<<"-">>, msg) THEN Text(Strip(msg)) ELSE None
      [] OTHER -> None

\* the question for the first missing field, or the completion sentence
GreeterReply(row, first) ==
    LET missing == get_missing_fields(row) IN
    IF missing # << >>
    THEN << Part(IF first THEN "greet_intro" ELSE "greet_thanks", "", ~first),
            Part("greet_ask", missing[1], FALSE) >>
    ELSE << Part("greet_complete", "", FALSE) >>

\* GreeterProfiler.process_input(user_input, context).  fault: "greeter_read"
\* (first read raises, caught: profile = {}), "greeter_write" (UPDATE raises,
\* caught: False), "greeter_connect" (sqlite3.connect in _update_user_profile
\* raises, outside the try), "greeter_refresh" (second read raises).
GreeterProcessInput(msg, c, U, G, fault) ==
    IF ~Has(c, "user_id") \/ ~c["user_id"].int \/ c["user_id"].n <= 0
    THEN [users |-> U, greeted |-> G, resp |-> <<Part("greet_auth", "", FALSE)>>,
          raised |-> FALSE]
    ELSE
    LET uid     == c["user_id"].n
        profile == IF fault = "greeter_read" THEN EmptyRow ELSE ProfileOf(U, uid)
        first   == uid \notin G
        G1      == G \cup {uid}
        gives   == msg # << >> /\ Strip(msg) # << >> /\ Lower(msg) \notin Greetings
        missing == get_missing_fields(profile)
        upd     == IF gives /\ missing # << >> THEN GreeterUpdate(missing[1], msg) ELSE None
    IN
    IF upd.null
    THEN [users |-> U, greeted |-> G1, resp |-> GreeterReply(profile, first), raised |-> FALSE]
    ELSE IF fault = "greeter_connect"
    THEN [users |-> U, greeted |-> G1, resp |-> << >>, raised |-> TRUE]
    ELSE IF fault = "greeter_write" \/ uid \notin DOMAIN U
    THEN [users |-> U, greeted |-> G1, resp |-> GreeterReply(profile, first), raised |-> FALSE]
    ELSE LET U1 == [U EXCEPT ![uid][missing[1]] = upd] IN
         IF fault = "greeter_refresh"
         THEN [users |-> U1, greeted |-> G1, resp |-> << >>, raised |-> TRUE]
         ELSE [users |-> U1, greeted |-> G1, resp |-> GreeterReply(U1[uid], first),
               raised |-> FALSE]

----------------------------------------------------------------------------
(* CGMCollector and MealPlanner: the agent run is an unknown text *)

\* the text before the first comma, and the text after it
BeforeComma(s) ==
    IF \E i \in 1..Len(s) : s[i] = ","
    THEN SubSeq(s, 1, (CHOOSE i \in 1..Len(s) : s[i] = "," /\ \A j \in 1..(i-1) : s[j] # ",") - 1)
    ELSE s

AfterComma(s) ==
    SubSeq(s, (CHOOSE i \in 1..Len(s) : s[i] = "," /\ \A j \in 1..(i-1) : s[j] # ",") + 1, Len(s))

\* \s*\d+\s*
IsReadingToken(t) == Strip(t) # << >> /\ \A i \in 1..Len(Strip(t)) : IsDigit(Strip(t)[i])

RECURSIVE validate_readings_format(_)
\* CGMCollector._validate_readings_format: re.match(READING_PATTERN, input_str)
validate_readings_format(s) ==
    /\ IsReadingToken(BeforeComma(s))
    /\ (\E i \in 1..Len(s) : s[i] = ",") => validate_readings_format(AfterComma(s))

\* what self.run() can give: a final output, or an exception that
\* process_input turns into the "Sorry, I encountered an issue" text; either
\* text may or may not contain one of the orchestrator's success words
CgmOutcomes == { Part(k, "", m) : k \in {"cgm_text", "cgm_sorry"}, m \in BOOLEAN }

\* a process_input that only asks for the user_id key to be there
CgmProcessInput_KeyOnly(msg, c, out) ==
    IF ~Has(c, "user_id")
    THEN [resp |-> << >>, raised |-> TRUE]
    ELSE [resp |-> <<out>>, raised |-> FALSE]

\* CGMCollector.process_input(message, context)
CgmProcessInput(msg, c, out) ==
    IF ~Has(c, "user_id") \/ ~c["user_id"].int \/ c["user_id"].n = 0
    THEN [resp |-> << >>, raised |-> TRUE]
    ELSE [resp |-> <<out>>, raised |-> FALSE]

MealOutcomes == {"meal_text", "meal_run_error", "meal_raise"}

\* MealPlanner.process_input(message, context); "meal_raise" stands for a
\* planner that faults instead of returning
MealProcessInput(msg, c, out) ==
    IF out = "meal_raise"
    THEN [resp |-> << >>, raised |-> TRUE]
    ELSE IF ~Has(c, "user_id") \/ ~c["user_id"].int \/ c["user_id"].n = 0
    THEN [resp |-> <<Part("meal_auth", "", FALSE)>>, raised |-> FALSE]
    ELSE [resp |-> <<Part(out, "", FALSE)>>, raised |-> FALSE]

----------------------------------------------------------------------------
(* Orchestrator *)

\* Orchestrator._check_profile_complete: False when there is no row
check_profile_complete(U, uid) ==
    uid \in DOMAIN U /\ \A i \in 1..Len(REQUIRED_FIELDS) : Truthy(U[uid][REQUIRED_FIELDS[i]])

NoField == ""

\* a _get_next_missing_field that walks the required fields from the end
get_next_missing_field_Last(U, uid) ==
    IF uid \notin DOMAIN U THEN NoField
    ELSE LET missing == get_missing_fields(U[uid]) IN
         IF missing = << >> THEN NoField ELSE missing[Len(missing)]

\* Orchestrator._get_next_missing_field: "" when there is no row or nothing is missing
get_next_missing_field(U, uid) ==
    IF uid \notin DOMAIN U THEN NoField
    ELSE LET missing == get_missing_fields(U[uid]) IN
         IF missing = << >> THEN NoField ELSE missing[1]

\* what a handler leaves behind: the context and table as written so far, the
\* text to return, the collaborators invoked, the exception in flight, the
\* collaborator's own text (raw) and the messages handed to the CGM collector
Res(c, U, G, resp, calls, exc, raw, sent) ==
    [ctx |-> c, users |-> U, greeted |-> G, resp |-> resp, calls |-> calls,
     exc |-> exc, raw |-> raw, sent |-> sent]

\* The part of both profile handlers that follows the collaborator's answer:
\* query completeness, then set the flags.  c is the context as already
\* written by the caller; fault "check" / "next" makes the query raise
\* DatabaseError, leaving the context as written so far.
AfterProfileAnswer(c, U, G, uid, resp, calls, fault, setAwaitFirst) ==
    IF fault = "check"
    THEN Res(c, U, G, resp, calls \cup {"store"}, "DatabaseError", resp, << >>)
    ELSE IF check_profile_complete(U, uid)
    THEN Res(Put(c, "profile_complete", TRUE), U, G,
             Append(resp, Part("orch_complete", "", FALSE)),
             calls \cup {"store"}, "none", resp, << >>)
    ELSE LET c1 == IF setAwaitFirst THEN Put(c, "awaiting_profile_field", TRUE) ELSE c
             nf == get_next_missing_field(U, uid)
         IN
         IF fault = "next"
         THEN Res(c1, U, G, resp, calls \cup {"store"}, "DatabaseError", resp, << >>)
         ELSE IF nf # NoField
         THEN Res(Put(Put(c1, "awaiting_profile_field", TRUE), "field_to_update", nf), U, G,
                  Append(resp, Part("orch_ask", nf, FALSE)),
                  calls \cup {"store"}, "none", resp, << >>)
         ELSE Res(c1, U, G, resp, calls \cup {"store"}, "none", resp, << >>)

\* the test "the update was successful" of _handle_profile_field_update
UpdateAccepted(resp) == ~StartsWithError(resp)

\* Orchestrator._handle_profile_field_update
HandleProfileFieldUpdate(msg, c, U, G, uid, fault) ==
    LET u == UpdaterProcessInput(msg, c, U, fault) IN
    IF u.raised
    THEN Res(c, U, G, << >>, {"updater"}, "Exception", << >>, << >>)
    ELSE IF UpdateAccepted(u.resp)
    THEN AfterProfileAnswer(Put(c, "awaiting_profile_field", FALSE), u.users, G, uid,
                            u.resp, {"updater"}, fault, FALSE)
    ELSE Res(c, u.users, G, u.resp, {"updater"}, "none", u.resp, << >>)

\* Orchestrator._handle_profile_phase
HandleProfilePhase(msg, c, U, G, uid, fault) ==
    IF Get(c, "awaiting_profile_field", FALSE) /\ Has(c, "field_to_update")
    THEN HandleProfileFieldUpdate(msg, c, U, G, uid, fault)
    ELSE
    LET g == GreeterProcessInput(msg, c, U, G, fault) IN
    IF g.raised
    THEN Res(c, g.users, g.greeted, << >>, {"greeter"}, "Exception", << >>, << >>)
    ELSE AfterProfileAnswer(c, g.users, g.greeted, uid, g.resp, {"greeter"}, fault, TRUE)

\* any(term in response.lower() for term in ["success", "thank", "received"])
SignalsSuccess(resp) == \E i \in 1..Len(resp) : resp[i].mark

mStart == <<"s","t","a","r","t">>

\* Orchestrator._handle_cgm_phase
HandleCgmPhase(msg, c, U, G, cgmOut) ==
    IF Get(c, "awaiting_cgm", FALSE)
    THEN LET r == CgmProcessInput(msg, c, cgmOut) IN
         IF r.raised
         THEN Res(c, U, G, << >>, {"cgm"}, "Exception", << >>, <<msg>>)
         ELSE IF SignalsSuccess(r.resp)
         THEN Res(Put(Put(c, "cgm_collected", TRUE), "awaiting_cgm", FALSE), U, G,
                  Append(r.resp, Part("orch_cgm_done", "", FALSE)),
                  {"cgm"}, "none", r.resp, <<msg>>)
         ELSE Res(c, U, G, r.resp, {"cgm"}, "none", r.resp, <<msg>>)
    ELSE LET r == CgmProcessInput(mStart, c, cgmOut) IN
         IF r.raised
         THEN Res(c, U, G, << >>, {"cgm"}, "Exception", << >>, <<mStart>>)
         ELSE Res(Put(c, "awaiting_cgm", TRUE), U, G, r.resp, {"cgm"}, "none",
                  r.resp, <<mStart>>)

\* a _handle_meal_planning_phase that sends the user back to CGM collection
\* when the planner faults
HandleMealPlanningPhase_Regress(msg, c, U, G, mealOut) ==
    LET r == MealProcessInput(msg, c, mealOut) IN
    Res(IF r.raised THEN Put(c, "cgm_collected", FALSE) ELSE c, U, G,
        IF r.raised THEN <<Part("orch_meal_trouble", "", FALSE)>> ELSE r.resp,
        {"meal"}, "none", r.resp, << >>)

\* a _handle_meal_planning_phase that puts a heading before the planner's text
HandleMealPlanningPhase_Heading(msg, c, U, G, mealOut) ==
    LET r == MealProcessInput(msg, c, mealOut) IN
    Res(c, U, G,
        IF r.raised THEN <<Part("orch_meal_trouble", "", FALSE)>>
        ELSE <<Part("orch_meal_heading", "", FALSE)>> \o r.resp,
        {"meal"}, "none", r.resp, << >>)

\* Orchestrator._handle_meal_planning_phase: its own except turns a planner
\* fault into the "having trouble" sentence
HandleMealPlanningPhase(msg, c, U, G, mealOut) ==
    LET r == MealProcessInput(msg, c, mealOut) IN
    Res(c, U, G,
        IF r.raised THEN <<Part("orch_meal_trouble", "", FALSE)>> ELSE r.resp,
        {"meal"}, "none", r.resp, << >>)

\* an authentication test that only looks for the key
Authenticated_KeyOnly(c) == Has(c, "user_id")

\* the authentication test at the top of handle_message
Authenticated(c) == Has(c, "user_id") /\ c["user_id"].int

\* a try block that goes on to the CGM phase in the call that completed the
\* profile
HandleMessageBody_FallThrough(msg, c, U, G, fault, cgmOut, mealOut) ==
    IF ~Authenticated(c)
    THEN Res(c, U, G, << >>, {}, "ValidationError", << >>, << >>)
    ELSE IF ~Get(c, "profile_complete", FALSE)
    THEN LET p == HandleProfilePhase(msg, c, U, G, c["user_id"].n, fault) IN
         IF p.exc = "none" /\ Get(p.ctx, "profile_complete", FALSE)
         THEN LET g == HandleCgmPhase(msg, p.ctx, p.users, p.greeted, cgmOut) IN
              [g EXCEPT !.calls = p.calls \cup g.calls]
         ELSE p
    ELSE IF ~Get(c, "cgm_collected", FALSE)
    THEN HandleCgmPhase(msg, c, U, G, cgmOut)
    ELSE HandleMealPlanningPhase(msg, c, U, G, mealOut)

\* the try block of handle_message
HandleMessageBody(msg, c, U, G, fault, cgmOut, mealOut) ==
    IF ~Authenticated(c)
    THEN Res(c, U, G, << >>, {}, "ValidationError", << >>, << >>)
    ELSE IF ~Get(c, "profile_complete", FALSE)
    THEN HandleProfilePhase(msg, c, U, G, c["user_id"].n, fault)
    ELSE IF ~Get(c, "cgm_collected", FALSE)
    THEN HandleCgmPhase(msg, c, U, G, cgmOut)
    ELSE HandleMealPlanningPhase(msg, c, U, G, mealOut)

\* except clauses without the final "except Exception"
ExceptClauses_NoCatchAll(r) ==
    CASE r.exc = "ValidationError" ->
             [r EXCEPT !.resp = <<Part("orch_auth_error", "", FALSE)>>, !.exc = "none"]
      [] r.exc = "DatabaseError" ->
             [r EXCEPT !.resp = <<Part("orch_db_error", "", FALSE)>>, !.exc = "none"]
      [] OTHER -> r

\* the except clauses of handle_message: every exception becomes a text
ExceptClauses(r) ==
    CASE r.exc = "none" -> [r EXCEPT !.exc = "none"]
      [] r.exc = "ValidationError" ->
             [r EXCEPT !.resp = <<Part("orch_auth_error", "", FALSE)>>, !.exc = "none"]
      [] r.exc = "DatabaseError" ->
             [r EXCEPT !.resp = <<Part("orch_db_error", "", FALSE)>>, !.exc = "none"]
      [] OTHER ->
             [r EXCEPT !.resp = <<Part("orch_unexpected", "", FALSE)>>, !.exc = "none"]

\* Orchestrator.handle_message(message, context)
handle_message(msg, c, U, G, fault, cgmOut, mealOut) ==
    ExceptClauses(HandleMessageBody(msg, c, U, G, fault, cgmOut, mealOut))

----------------------------------------------------------------------------
(* The session as a state machine *)

VARIABLES
    ctx,        \* the caller-owned context dictionary
    users,      \* the users table: user id -> row
    greeted,    \* GreeterProfiler._greeted_users
    resp,       \* the text returned by the last call
    calls,      \* the collaborators invoked by the last call
    raised,     \* whether the last call raised to its caller
    raw,        \* the text the collaborator returned in the last call
    sent,       \* the messages handed to the CGM collector in the last call
    pre,        \* the context as it was before the last call
    preUsers,   \* the users table as it was before the last call
    lastMsg,    \* the message of the last call
    lastFault,  \* the collaborator fault injected into the last call
    fresh,      \* the session started from a context holding only user_id
    nFaults,    \* the collaborator faults injected so far
    op,         \* the entry point of the last call
    field,      \* the field name handed to the validator or the updater
    value,      \* the value handed to the validator or the updater
    outcome,    \* what the last validate_field_value call gave
    retry_count,  \* CGMCollector.retry_count
    cgm_readings, \* the cgm_readings table: the values stored, in order
    attempts,   \* the readings handed to the insert tool by the last call
    tool,       \* what the name insert_cgm_reading is bound to
    detected,   \* what the last detect_intent call gave
    sessions,   \* the sessions served by one Orchestrator instance
    reported,   \* what the completeness checks said of the context's user
    turn,       \* the parity of the number of calls the cooperative user has made
    inferred    \* a timestamp <<hour, minute, second>> and the reading type each inference gives it

vars == <<ctx, users, greeted, resp, calls, raised, raw, sent, pre, preUsers, lastMsg, lastFault, fresh, nFaults, op,
          field, value, outcome, retry_count, cgm_readings, attempts, tool, detected, sessions, reported, turn, inferred>>

\* the variables of the validator and of the CGM components
unitVars == <<field, value, outcome, retry_count, cgm_readings, attempts, tool>>

NoOutcome == Outcome(FALSE, None, "not_called", FALSE)

\* the variables of the components a specification may leave uncalled
otherVars == <<detected, sessions, reported, turn, inferred>>

\* those components not yet called
OthersIdle ==
    /\ detected = [intent |-> "", confidence |-> 0, raised |-> FALSE]
    /\ sessions = << >>
    /\ reported = << >>
    /\ turn = 0
    /\ inferred = [at |-> << >>, collector |-> "", store |-> ""]

\* the validator and the CGM components as constructed and not yet called
UnitsIdle ==
    /\ field = ""
    /\ value = None
    /\ outcome = NoOutcome
    /\ retry_count = 0
    /\ cgm_readings = << >>
    /\ attempts = << >>
    /\ tool = "function_tool"

\* the texts the user types in the sessions explored
Msg ==
    [ Empty         |-> << >>,
      Hi            |-> <<"h","i">>,
      Bo            |-> <<"B","o">>,
      X             |-> <<"x">>,
      Email         |-> <<"a","@","b",".","c">>,
      NoDot         |-> <<"a","@","b">>,
      Date          |-> <<"1","9","9","0","-","0","1","-","0","1">>,
      BadDate       |-> <<"1","9","9","0","-","0","2","-","3","0">>,
      Vegan         |-> <<"V","E","G","A","N">>,
      Batch         |-> <<"9","5",","," ","1","1","0">>,
      BadBatch      |-> <<"9","5",";","1","1","0">>,
      Blank         |-> <<" ">>,
      Hello         |-> <<"H","i">>,
      MyInfo        |-> <<"m","y"," ","i","n","f","o">>,
      ChangeProfile |-> <<"c","h","a","n","g","e"," ","p","r","o","f","i","l","e">>,
      Cgm           |-> <<"c","g","m">>,
      Eat           |-> <<"e","a","t">>,
      Ok            |-> <<"o","k">> ]

\* What the user sends when asked for field f: nothing, a greeting, a value
\* the validator accepts for f and one it rejects.
AnswersFor(f) ==
    {Msg.Empty, Msg.Hi} \cup
    CASE f \in {"first_name", "last_name", "city"} -> {Msg.Bo, Msg.X}
      [] f = "email"              -> {Msg.Email, Msg.NoDot}
      [] f = "date_of_birth"      -> {Msg.Date, Msg.BadDate}
      [] f = "dietary_preference" -> {Msg.Vegan, Msg.Bo}
      [] OTHER                    -> {Msg.Bo}

\* the messages sent once the profile phase is over
LaterMessages == {Msg.Hi, Msg.Batch, Msg.BadBatch}

\* the field the session is asking for: field_to_update when one is awaited,
\* else the first field missing in the store
AskedField(c, U) ==
    IF Get(c, "awaiting_profile_field", FALSE) /\ Has(c, "field_to_update")
    THEN c["field_to_update"]
    ELSE IF Has(c, "user_id") /\ c["user_id"].n \in DOMAIN U
              /\ get_missing_fields(U[c["user_id"].n]) # << >>
         THEN get_missing_fields(U[c["user_id"].n])[1]
         ELSE "first_name"

\* the messages the user can send in the current state; the user may also
\* repeat the previous message.  While a field is awaited a greeting is just
\* another value (a valid name, an invalid email), so it is left to the
\* repetition of a first-call greeting.
MessagesFor(c, U, last) ==
    {last} \cup
    IF Get(c, "profile_complete", FALSE) THEN LaterMessages
    ELSE IF Get(c, "awaiting_profile_field", FALSE) /\ Has(c, "field_to_update")
    THEN AnswersFor(AskedField(c, U)) \ {Msg.Hi}
    ELSE AnswersFor(AskedField(c, U))

\* user 1 has a row, user 2 has none, 0 is an int no component but the
\* orchestrator accepts
ExistingUser == 1

UserIdValues == {NonIntId, IntId(0), IntId(ExistingUser), IntId(2)}

FullRow ==
    [f \in ALLOWED_FIELDS |->
        CASE f \in {"first_name", "last_name", "city"} -> Text(Msg.Bo)
          [] f = "email"              -> Text(Msg.Email)
          [] f = "date_of_birth"      -> Text(Msg.Date)
          [] f = "dietary_preference" -> Text(Lower(Msg.Vegan))
          [] OTHER                    -> None]

\* a context dictionary with the given user_id (a set of zero or one value),
\* the given flags set to True and the given field_to_update (zero or one)
MakeContext(uids, flags, fields) ==
    LET ks == {k \in {"user_id"} : uids # {}} \cup flags
              \cup {k \in {"field_to_update"} : fields # {}}
    IN [k \in ks |-> CASE k = "user_id" -> CHOOSE u \in uids : TRUE
                       [] k = "field_to_update" -> CHOOSE f \in fields : TRUE
                       [] OTHER -> TRUE]

OnlyUserId(c) == DOMAIN c = {"user_id"}

\* the session reads the row of the existing user: only the profile phase
\* queries the users table, and only for the context's own user_id
ReadsRow(c) ==
    /\ Has(c, "user_id") /\ c["user_id"] = IntId(ExistingUser)
    /\ ~Get(c, "profile_complete", FALSE)

\* the inputs the specifications draw from
Inputs ==
    LET batches == {<<"9","5">>, Msg.Batch, <<"9",","," ","8",",","7">>, Msg.BadBatch, <<"a","b">>} IN
    [
      \* rows the existing user can start with
      rows |->
          { EmptyRow,
          [EmptyRow EXCEPT !["first_name"] = Text(Msg.Bo), !["email"] = Text(Msg.Email)],
          [FullRow EXCEPT !["dietary_preference"] = None],
          FullRow },
      \* contexts a caller hands in: a new session (only user_id), a session that
      \* skips ahead (main() example 3), a session resumed while a field is
      \* awaited, and contexts without a usable user_id
      contexts |->
          { MakeContext({u}, {}, {}) : u \in UserIdValues }
          \cup { MakeContext({u}, {"profile_complete"}, {}) : u \in UserIdValues }
          \cup { MakeContext({u}, {"profile_complete", "cgm_collected"}, {}) : u \in UserIdValues }
          \cup { MakeContext({u}, {"awaiting_profile_field"}, {f}) :
          u \in {IntId(ExistingUser), IntId(2)}, f \in {"first_name", "dietary_preference"} }
          \cup { MakeContext({}, fl, {}) :
          fl \in {{}, {"profile_complete"}, {"profile_complete", "cgm_collected"}} },
      \* contexts handed to the triage agent: with or without a user_id
      triageContexts |->
          { MakeContext(us, {}, {}) : us \in {{}, {IntId(0)}, {IntId(ExistingUser)}, {IntId(2)}} },
      \* what Runner.run gives for the agent's own turn: a final output, an empty
      \* result, or an exception
      runs |->
          {"final_output", "empty", "raise"},
      fields |->
          ALLOWED_FIELDS \cup {"nickname"},
      \* None, empty and whitespace-only text, and per validator a text it
      \* accepts and one it rejects: "  ", " Bo ", "vegan", " Vegan" and the
      \* answers of the session
      values |->
          {None} \cup
          { Text(x) : x \in {Msg.Empty, Msg.X, Msg.Bo, Msg.Email, Msg.NoDot, Msg.Date, Msg.BadDate, Msg.Vegan,
          <<" "," ">>, <<" ","B","o"," ">>,
          <<"v","e","g","a","n">>, <<" ","V","e","g","a","n">>} },
      \* the row of the existing user: complete, with or without the optional texts
      validatorRows |->
          { FullRow,
          [FullRow EXCEPT !["medical_conditions"] = Text(Msg.Bo),
          !["physical_limitations"] = Text(Msg.Bo)] },
      \* batches handed to _process_valid_readings: well-formed ones ("95",
      \* "95, 110", "9, 8,7") and ones float() raises on ("95;110", "ab")
      batches |->
          batches,
      \* messages handed to process_input: the batches, "9.5" and a greeting
      cgmMessages |->
          batches \cup {<<"9",".","5">>, Msg.Hi},
      \* the insert tool calls the agent run makes: none, or one with some value
      toolCalls |->
          {<< >>} \cup { <<v>> : v \in {95, 1001} },
      \* what the AsyncMock installed by the tests returns per call: one of the
      \* tool's three texts, or a text of the tests' own ("Successfully stored
      \* reading 100.0 mg/dL ..."), which line 181 does not count as a success
      mockResults |->
          {"stored", "failed", "error", "other"},
      \* values offered to the tool and to save_cgm_reading
      readings |->
          {0 - 1, 0, 600, 601, 1001},
      \* messages typed into the demo: batches in and out of the 70..180 range, a
      \* malformed one, "cgm 1001", "new cgm", "plan", and answers to the
      \* profile questions: nothing, a name, a date, a dietary preference
      demoMessages |->
          {Msg.Batch, Msg.BadBatch, <<"9",","," ","8",",","7">>, <<"c","g","m"," ","1","0","0","1">>, <<"n","e","w"," ","c","g","m">>, <<"p","l","a","n">>,
           Msg.Empty, Msg.Bo, Msg.Date, Msg.Vegan},
      \* messages handed to GreeterProfiler.process_input: nothing, blanks, a
      \* greeting, a name, an email address, a date, a dietary preference
      greeterMessages |->
          {Msg.Empty, Msg.Blank, Msg.Hi, Msg.Bo, Msg.Email, Msg.Date, Msg.Vegan},
      \* times of day <<hour, minute, second>> a reading is taken at: every
      \* hour, at its first minute, at a minute inside and at its last
      \* minute, on the minute and half a minute later
      timestamps |->
          { <<h, m, sec>> : h \in 0..23, m \in {0, 30, 59}, sec \in {0, 30} },
      \* rows the demo's user can start with: complete, empty, or with one of
      \* the fields the demo requires missing
      demoRows |->
          {FullRow, EmptyRow} \cup
          { [FullRow EXCEPT ![f] = None] :
              f \in {"first_name", "last_name", "city", "date_of_birth", "dietary_preference"} },
      triageMessages |->
          {Msg.Empty, Msg.Blank, Msg.Hello, Msg.MyInfo, Msg.ChangeProfile, Msg.Cgm, Msg.Eat, Msg.Ok} ]

Init ==
    /\ ctx \in Inputs.contexts
    /\ users \in { [u \in {ExistingUser} |-> row] : row \in Inputs.rows }
    /\ ReadsRow(ctx) \/ users[ExistingUser] = FullRow
    /\ greeted = {}
    /\ resp = << >>
    /\ calls = {}
    /\ raised = FALSE
    /\ raw = << >>
    /\ sent = << >>
    /\ pre = ctx
    /\ preUsers = users
    /\ lastMsg = << >>
    /\ lastFault = "none"
    /\ fresh = OnlyUserId(ctx)
    /\ nFaults = 0
    /\ op = "init"
    /\ OthersIdle
    /\ UnitsIdle

NoFault == "none"

\* collaborator faults injected per session
MaxFaults == 1

CgmDefault == Part("cgm_text", "", FALSE)

MealDefault == "meal_text"

\* the environment of one call: the fault injected and the agents' outputs
Env(fault, cgmOut, mealOut) == [fault |-> fault, cgm |-> cgmOut, meal |-> mealOut]

\* the environment choices that the call in context c can observe
EnvsFor(c) ==
    IF ~Authenticated(c) THEN {Env(NoFault, CgmDefault, MealDefault)}
    ELSE IF ~Get(c, "profile_complete", FALSE)
    THEN IF Get(c, "awaiting_profile_field", FALSE) /\ Has(c, "field_to_update")
         THEN {Env(f, CgmDefault, MealDefault) :
                  f \in {NoFault, "check", "next", "updater_connect", "updater_db"}}
         ELSE {Env(f, CgmDefault, MealDefault) :
                  f \in {NoFault, "check", "next", "greeter_read", "greeter_write",
                         "greeter_connect", "greeter_refresh"}}
    ELSE IF ~Get(c, "cgm_collected", FALSE)
    THEN {Env(NoFault, o, MealDefault) : o \in CgmOutcomes}
    ELSE {Env(NoFault, CgmDefault, o) : o \in MealOutcomes}

\* one Orchestrator.handle_message call, run to completion.  A fault is
\* enumerated only where it changes the result of the call.
HandleMessage ==
    \E msg \in MessagesFor(ctx, users, lastMsg), e \in EnvsFor(ctx) :
      \E r \in {handle_message(msg, ctx, users, greeted, e.fault, e.cgm, e.meal)} :
        /\ e.fault = NoFault
              \/ /\ nFaults < MaxFaults
                 /\ r # handle_message(msg, ctx, users, greeted, NoFault, e.cgm, e.meal)
        /\ nFaults' = IF e.fault = NoFault THEN nFaults ELSE nFaults + 1
        /\ ctx' = r.ctx
        /\ users' = r.users
        /\ greeted' = r.greeted
        /\ resp' = r.resp
        /\ calls' = r.calls
        /\ raised' = (r.exc # "none")
        /\ raw' = r.raw
        /\ sent' = r.sent
        /\ pre' = ctx
        /\ preUsers' = users
        /\ lastMsg' = msg
        /\ lastFault' = e.fault
        /\ op' = "handle_message"
        /\ UNCHANGED <<otherVars, fresh, unitVars>>

Next == HandleMessage

Spec == Init /\ [][Next]_vars

----------------------------------------------------------------------------
(* TriageAgent *)

\* models.UserIntent
UserIntent ==
    {"greeting", "profile_query", "profile_update", "cgm_query", "cgm_update",
     "meal_query", "meal_plan", "unknown"}

\* what detect_intent gives: an intent, or the AttributeError of
\* UserIntent.CGM_DATA, a member the enum does not have
IntentError == "AttributeError"

\* the keyword lists of detect_intent
Keywords ==
    [ greeting |-> {<<"h","e","l","l","o">>, <<"h","i">>, <<"h","e","y">>,
                    <<"g","r","e","e","t","i","n","g","s">>},
      profile  |-> {<<"p","r","o","f","i","l","e">>, <<"m","y"," ","i","n","f","o">>,
                    <<"m","y"," ","d","e","t","a","i","l","s">>},
      change   |-> {<<"u","p","d","a","t","e">>, <<"c","h","a","n","g","e">>},
      cgm      |-> {<<"g","l","u","c","o","s","e">>, <<"s","u","g","a","r">>, <<"c","g","m">>,
                    <<"b","l","o","o","d">>},
      meal     |-> {<<"m","e","a","l">>, <<"f","o","o","d">>, <<"d","i","e","t">>, <<"e","a","t">>} ]

AnyWordIn(words, s) == \E w \in words : Contains(w, s)

\* triage_agent.detect_intent(message)
detect_intent(message) ==
    IF Strip(message) = << >> THEN "unknown"
    ELSE LET message_lower == Lower(message) IN
         IF AnyWordIn(Keywords.greeting, message_lower) THEN "greeting"
         ELSE IF AnyWordIn(Keywords.profile, message_lower)
         THEN IF AnyWordIn(Keywords.change, message_lower)
              THEN "profile_update" ELSE "profile_query"
         ELSE IF AnyWordIn(Keywords.cgm, message_lower) THEN IntentError
         ELSE IF AnyWordIn(Keywords.meal, message_lower) THEN "meal_plan"
         ELSE "unknown"

\* the confidence detect_intent returns with the intent, in hundredths
detect_confidence(message) ==
    IF Strip(message) = << >> THEN 0
    ELSE LET message_lower == Lower(message) IN
         IF AnyWordIn(Keywords.greeting, message_lower) THEN 90
         ELSE IF AnyWordIn(Keywords.profile, message_lower)
         THEN IF AnyWordIn(Keywords.change, message_lower) THEN 80 ELSE 70
         ELSE IF AnyWordIn(Keywords.cgm, message_lower) THEN 85
         ELSE IF AnyWordIn(Keywords.meal, message_lower) THEN 80
         ELSE 30

TriageName == "aduro_triage_agent"

NoAgent == ""

\* the intent_to_agent dictionary of _determine_agent; an intent that is not
\* a key, and "unknown", give no agent
intent_to_agent(intent) ==
    CASE intent = "greeting" -> "greeter_profiler"
      [] intent \in {"profile_update", "profile_query"} -> "profile_updater"
      [] intent \in {"cgm_update", "cgm_query"} -> "cgm_collector"
      [] intent = "meal_plan" -> "meal_planner"
      [] OTHER -> NoAgent

\* the keys of the intent_to_agent dictionary
intent_to_agent_keys ==
    {"greeting", "profile_update", "profile_query", "cgm_update", "cgm_query", "meal_plan",
     "unknown"}

\* AduroConversationContext(user_id=...): current_intent starts as None
NoIntent == "None"

ConversationContext(uid) == [user_id |-> uid, current_intent |-> NoIntent]

\* TriageAgent._determine_agent: the agent name and the context, whose
\* conversation_context takes the intent when an agent is chosen
determine_agent(message, c) ==
    IF Strip(message) = << >> THEN [agent |-> NoAgent, ctx |-> c]
    ELSE LET intent == Get(c, "detected_intent", "unknown")
             agent_name == intent_to_agent(intent)
         IN
         IF agent_name = NoAgent THEN [agent |-> NoAgent, ctx |-> c]
         ELSE [agent |-> agent_name,
               ctx |-> IF Has(c, "conversation_context")
                       THEN Put(c, "conversation_context",
                                [c["conversation_context"] EXCEPT !.current_intent = intent])
                       ELSE c]

\* TriageAgent._intent_guardrail on the context of the run; the context is
\* untouched when detect_intent raises
intent_guardrail(message, c) ==
    LET intent == detect_intent(message) IN
    IF intent = IntentError THEN [ctx |-> c, raised |-> TRUE]
    ELSE LET c1 == Put(c, "detected_intent", intent) IN
         [ctx |-> IF Has(c1, "user_id") /\ ~Has(c1, "conversation_context")
                  THEN Put(c1, "conversation_context", ConversationContext(c1["user_id"]))
                  ELSE c1,
          raised |-> FALSE]

\* TriageAgent._process_with_agent: the input guardrail belongs to the
\* triage agent and runs only when the triage agent itself is run
process_with_agent(agent, message, c, out) ==
    LET g == IF agent = TriageName THEN intent_guardrail(message, c)
             ELSE [ctx |-> c, raised |-> FALSE]
    IN
    [ctx  |-> g.ctx,
     resp |-> IF g.raised \/ out = "raise" THEN <<Part("triage_trouble", "", FALSE)>>
              ELSE IF out = "empty" THEN <<Part("triage_not_sure", "", FALSE)>>
              ELSE <<Part("agent_output", agent, FALSE)>>]

\* "if not user_id": absent, or the integer 0
FalsyUserId(c) == ~Has(c, "user_id") \/ (c["user_id"].int /\ c["user_id"].n = 0)

DefaultUserId == 1

\* TriageAgent.process_input(message, context)
process_input(message, c, out) ==
    LET c0 == IF FalsyUserId(c) THEN Put(c, "user_id", IntId(DefaultUserId)) ELSE c
        d  == determine_agent(message, c0)
        agent == IF d.agent = NoAgent THEN TriageName ELSE d.agent
        p  == process_with_agent(agent, message, d.ctx, out)
    IN [ctx |-> p.ctx, resp |-> p.resp, agent_name |-> agent, calls |-> {agent}]

InitTriage ==
    /\ ctx \in Inputs.triageContexts
    /\ users = [u \in {ExistingUser} |-> FullRow]
    /\ greeted = {}
    /\ resp = << >>
    /\ calls = {}
    /\ raised = FALSE
    /\ raw = << >>
    /\ sent = << >>
    /\ pre = ctx
    /\ preUsers = users
    /\ lastMsg = << >>
    /\ lastFault = "none"
    /\ fresh = OnlyUserId(ctx)
    /\ nFaults = 0
    /\ op = "init"
    /\ OthersIdle
    /\ UnitsIdle

\* one TriageAgent.process_input call, run to completion
TriageProcessInput ==
    \E msg \in Inputs.triageMessages, out \in Inputs.runs :
        LET r == process_input(msg, ctx, out) IN
        /\ ctx' = r.ctx
        /\ resp' = r.resp
        /\ calls' = r.calls
        /\ raised' = FALSE
        /\ raw' = r.resp
        /\ pre' = ctx
        /\ preUsers' = users
        /\ lastMsg' = msg
        /\ op' = "process_input"
        /\ UNCHANGED <<otherVars, users, greeted, sent, lastFault, fresh, nFaults, unitVars>>

\* one detect_intent call on its own: the result dict, or the exception that
\* ends the call before any dict is returned
DetectIntent ==
    \E msg \in Inputs.triageMessages :
        /\ detected' = IF detect_intent(msg) = IntentError
                       THEN [intent |-> IntentError, confidence |-> 0, raised |-> TRUE]
                       ELSE [intent |-> detect_intent(msg),
                             confidence |-> detect_confidence(msg), raised |-> FALSE]
        /\ lastMsg' = msg
        /\ op' = "detect_intent"
        /\ UNCHANGED <<ctx, users, greeted, resp, calls, raised, raw, sent, pre, preUsers,
                       lastFault, fresh, nFaults, unitVars, sessions, reported, turn, inferred>>

NextTriage == TriageProcessInput \/ DetectIntent

SpecTriage == InitTriage /\ [][NextTriage]_vars

----------------------------------------------------------------------------
(* validate_field_value (both copies) and the updater's write, called
   directly with a field name and a value *)

InitValidate ==
    /\ ctx \in { MakeContext({IntId(u)}, {}, {}) : u \in {ExistingUser, 2} }
    /\ users \in { [u \in {ExistingUser} |-> row] : row \in Inputs.validatorRows }
    /\ greeted = {}
    /\ resp = << >>
    /\ calls = {}
    /\ raised = FALSE
    /\ raw = << >>
    /\ sent = << >>
    /\ pre = ctx
    /\ preUsers = users
    /\ lastMsg = << >>
    /\ lastFault = "none"
    /\ fresh = OnlyUserId(ctx)
    /\ nFaults = 0
    /\ op = "init"
    /\ OthersIdle
    /\ field \in Inputs.fields
    /\ value \in Inputs.values
    /\ outcome = NoOutcome
    /\ retry_count = 0
    /\ cgm_readings = << >>
    /\ attempts = << >>
    /\ tool = "function_tool"

\* aduro_agents.profile_updater.validate_field_value(field, value)
Validate ==
    /\ outcome' = validate_field_value(field, value)
    /\ raised' = outcome'.raised
    /\ op' = "validate_field_value"
    /\ preUsers' = users
    /\ UNCHANGED <<otherVars, ctx, users, greeted, resp, calls, raw, sent, pre, lastMsg, lastFault, fresh,
                   nFaults, field, value, retry_count, cgm_readings, attempts, tool>>

\* agents.profile_updater.validate_field_value(field, value)
LegacyValidate ==
    /\ outcome' = legacy_validate_field_value(field, value)
    /\ raised' = outcome'.raised
    /\ op' = "legacy_validate_field_value"
    /\ preUsers' = users
    /\ UNCHANGED <<otherVars, ctx, users, greeted, resp, calls, raw, sent, pre, lastMsg, lastFault, fresh,
                   nFaults, field, value, retry_count, cgm_readings, attempts, tool>>

\* _update_user_profile_impl(user_id, field, value) for the context's user
UpdateUserProfile ==
    LET r == update_user_profile_impl(users, ctx["user_id"].n, field, value, NoFault) IN
    /\ users' = r.users
    /\ resp' = <<r.msg>>
    /\ raised' = r.raised
    /\ op' = "update_user_profile"
    /\ preUsers' = users
    /\ UNCHANGED <<otherVars, ctx, greeted, calls, raw, sent, pre, lastMsg, lastFault, fresh, nFaults,
                   field, value, outcome, retry_count, cgm_readings, attempts, tool>>

\* models.ProfileStatus
ProfileStatus == {"not_started", "in_progress", "complete"}

\* DatabaseManager.is_profile_complete: no row of the user has a field missing
is_profile_complete(U, uid) ==
    ~ /\ uid \in DOMAIN U
      /\ \/ \E f \in {"first_name", "last_name", "city", "email"} :
                U[uid][f].null \/ U[uid][f].s = << >>
         \/ U[uid]["date_of_birth"].null
         \/ U[uid]["dietary_preference"].null

\* AduroConversationContext.update_profile_status(profile_data) on a context
\* whose profile_status is status: ProfileStatus.INCOMPLETE is not a member
\* of the enum, so that branch raises AttributeError before it assigns
update_profile_status(status, profile_data) ==
    IF \A f \in {"first_name", "last_name", "email", "date_of_birth", "dietary_preference"} :
           Truthy(profile_data[f])
    THEN [profile_status |-> "complete", raised |-> FALSE]
    ELSE [profile_status |-> status, raised |-> TRUE]

\* DatabaseManager.get_next_missing_profile_field: 'first_name' when
\* get_user_profile finds no row, else the first field of field_priority the
\* row lacks, else None (NoField)
get_next_missing_profile_field(U, uid) ==
    LET field_priority == <<"first_name", "last_name", "email", "date_of_birth", "city",
                            "dietary_preference">>
    IN
    IF uid \notin DOMAIN U THEN "first_name"
    ELSE LET missing == SelectSeq(field_priority, LAMBDA f : ~Truthy(U[uid][f])) IN
         IF missing = << >> THEN NoField ELSE missing[1]

\* the completeness checks asked about the context's user
ReportComplete ==
    LET uid == ctx["user_id"].n IN
    /\ reported' = [orchestrator |-> check_profile_complete(users, uid),
                    database     |-> is_profile_complete(users, uid),
                    next_missing |-> get_next_missing_profile_field(users, uid),
                    context      |-> update_profile_status("not_started", ProfileOf(users, uid))]
    /\ op' = "profile_complete"
    /\ UNCHANGED <<detected, sessions, turn, inferred, ctx, users, greeted, resp, calls, raised, raw, sent, pre,
                   preUsers, lastMsg, lastFault, fresh, nFaults, unitVars>>

NextValidate == Validate \/ LegacyValidate \/ UpdateUserProfile \/ ReportComplete

SpecValidate == InitValidate /\ [][NextValidate]_vars

----------------------------------------------------------------------------
(* CGMCollector called directly: process_input and _process_valid_readings *)

MAX_RETRIES == 2

RECURSIVE SplitComma(_)
\* readings_input.split(',')
SplitComma(s) ==
    IF \E i \in 1..Len(s) : s[i] = ","
    THEN <<BeforeComma(s)>> \o SplitComma(AfterComma(s))
    ELSE <<s>>

RECURSIVE DigitsValue(_)
DigitsValue(t) ==
    IF t = << >> THEN 0
    ELSE 10 * DigitsValue(SubSeq(t, 1, Len(t) - 1)) + DigitVal(t[Len(t)])

\* float(r.strip()) returns rather than raising ValueError.  Only digit
\* tokens and tokens that are no number at all are drawn as inputs.
FloatParses(t) == IsReadingToken(t)

FloatOf(t) == DigitsValue(Strip(t))

\* the body of the insert_cgm_reading tool: the range check, then the call
\* of DatabaseManager.insert_cgm_readings, a method the class does not have;
\* the AttributeError is caught and returned as text.  Nothing is stored.
insert_cgm_reading(v) ==
    IF ~(0 <= v /\ v <= 1000) THEN "range_error" ELSE "error"

\* one call of the insert tool: the reading and the text kind it returned
\* ("stored", "failed", "error", "range_error") or "type_error" when the
\* call itself raised
Attempt(v, r) == [v |-> v, r |-> r]

\* "Successfully stored CGM reading" in result
IsStored(a) == a.r = "stored"

\* one line of the batch report
RPart(kind, k, n, r) == [kind |-> kind, k |-> k, n |-> n, r |-> r]

\* the report with the nudge added as soon as one reading was saved
BatchReport_NudgeOnAny(att) ==
    LET n == Len(att)
        success_count == Cardinality({i \in 1..n : IsStored(att[i])})
        failures == SelectSeq(att, LAMBDA a : ~IsStored(a))
        lead == IF success_count > 0 THEN <<RPart("saved", success_count, n, "")>>
                ELSE IF n > 0 THEN <<RPart("failed_all", n, n, "")>> ELSE << >>
        details == IF failures # << >>
                   THEN <<RPart("details", 0, 0, "")>>
                        \o [i \in 1..Len(failures) |-> RPart("reading", failures[i].v, 0, failures[i].r)]
                   ELSE << >>
        nudge == IF success_count > 0 THEN <<RPart("nudge", 0, 0, "")>> ELSE << >>
    IN lead \o details \o nudge

\* the report part of _process_valid_readings, from the per-reading results
BatchReport(att) ==
    LET n == Len(att)
        success_count == Cardinality({i \in 1..n : IsStored(att[i])})
        failures == SelectSeq(att, LAMBDA a : ~IsStored(a))
        lead == IF success_count > 0 THEN <<RPart("saved", success_count, n, "")>>
                ELSE IF n > 0 THEN <<RPart("failed_all", n, n, "")>> ELSE << >>
        details == IF failures # << >>
                   THEN <<RPart("details", 0, 0, "")>>
                        \o [i \in 1..Len(failures) |-> RPart("reading", failures[i].v, 0, failures[i].r)]
                   ELSE << >>
        nudge == IF success_count = n /\ success_count > 0
                 THEN <<RPart("nudge", 0, 0, "")>> ELSE << >>
    IN IF lead \o details = << >> /\ n > 0 THEN <<RPart("no_results", 0, 0, "")>>
       ELSE IF n = 0 THEN <<RPart("no_readings", 0, 0, "")>>
       ELSE lead \o details \o nudge

\* _process_valid_readings that counts a batch with a failed reading as a retry
process_valid_readings_CountsFailures(t, s, results) ==
    LET toks == SplitComma(s) IN
    IF \E i \in 1..Len(toks) : ~FloatParses(toks[i])
    THEN [retry_count |-> 0, attempts |-> << >>, resp |-> << >>, raised |-> TRUE]
    ELSE
    LET att == [i \in 1..Len(toks) |-> Attempt(FloatOf(toks[i]), results[i])] IN
    IF t # "mock"
    THEN [retry_count |-> 0, attempts |-> <<Attempt(FloatOf(toks[1]), "type_error")>>,
          resp |-> << >>, raised |-> TRUE]
    ELSE [retry_count |-> IF \E i \in 1..Len(att) : ~IsStored(att[i]) THEN 1 ELSE 0,
          attempts |-> att, resp |-> BatchReport(att), raised |-> FALSE]

\* CGMCollector._process_valid_readings(user_id, readings_input, db_manager).
\* t is what the name insert_cgm_reading is bound to: the FunctionTool the
\* module defines, whose call with user_id=, glucose_value=, db_manager=
\* raises TypeError (no such parameter; the tool object is not the coroutine
\* function), or the AsyncMock of the tests, which returns results[i] for
\* the i-th call.  Neither exception is caught here.
process_valid_readings(t, s, results) ==
    LET toks == SplitComma(s) IN
    IF \E i \in 1..Len(toks) : ~FloatParses(toks[i])
    THEN [retry_count |-> 0, attempts |-> << >>, resp |-> << >>, raised |-> TRUE]
    ELSE
    LET att == [i \in 1..Len(toks) |-> Attempt(FloatOf(toks[i]), results[i])] IN
    IF t # "mock"
    THEN [retry_count |-> 0, attempts |-> <<Attempt(FloatOf(toks[1]), "type_error")>>,
          resp |-> << >>, raised |-> TRUE]
    ELSE [retry_count |-> 0, attempts |-> att, resp |-> BatchReport(att), raised |-> FALSE]

InitCgm ==
    /\ ctx \in { MakeContext(us, {}, {}) :
                    us \in {{}, {NonIntId}, {IntId(0)}, {IntId(ExistingUser)}} }
    /\ users = [u \in {ExistingUser} |-> FullRow]
    /\ greeted = {}
    /\ resp = << >>
    /\ calls = {}
    /\ raised = FALSE
    /\ raw = << >>
    /\ sent = << >>
    /\ pre = ctx
    /\ preUsers = users
    /\ lastMsg = << >>
    /\ lastFault = "none"
    /\ fresh = OnlyUserId(ctx)
    /\ nFaults = 0
    /\ op = "init"
    /\ OthersIdle
    /\ field = ""
    /\ value = None
    /\ outcome = NoOutcome
    /\ retry_count = 0
    /\ cgm_readings = << >>
    /\ attempts = << >>
    /\ tool \in {"function_tool", "mock"}

\* one CGMCollector.process_input call: the message goes to the agent run,
\* which may invoke the insert tool on its own
CollectorProcessInput ==
    \E msg \in Inputs.cgmMessages, out \in CgmOutcomes, tc \in Inputs.toolCalls :
        LET r == CgmProcessInput(msg, ctx, out) IN
        /\ r.raised => tc = << >>
        /\ resp' = r.resp
        /\ raised' = r.raised
        /\ raw' = r.resp
        /\ attempts' = [i \in 1..Len(tc) |-> Attempt(tc[i], insert_cgm_reading(tc[i]))]
        /\ lastMsg' = msg
        /\ op' = "process_input"
        /\ UNCHANGED <<otherVars, ctx, users, greeted, calls, sent, pre, preUsers, lastFault, fresh, nFaults,
                       field, value, outcome, retry_count, cgm_readings, tool>>

\* one CGMCollector._process_valid_readings call for the context's user
ProcessValidReadings ==
    /\ Has(ctx, "user_id")
    /\ \E s \in Inputs.batches :
       \E results \in [1..(IF tool = "mock" /\ \A i \in 1..Len(SplitComma(s)) : FloatParses(SplitComma(s)[i])
                           THEN Len(SplitComma(s)) ELSE 0) -> Inputs.mockResults] :
        LET r == process_valid_readings(tool, s, results) IN
        /\ retry_count' = r.retry_count
        /\ attempts' = r.attempts
        /\ resp' = r.resp
        /\ raised' = r.raised
        /\ raw' = << >>
        /\ lastMsg' = s
        /\ op' = "_process_valid_readings"
        /\ UNCHANGED <<otherVars, ctx, users, greeted, calls, sent, pre, preUsers, lastFault, fresh, nFaults,
                       field, value, outcome, cgm_readings, tool>>

NextCgm == CollectorProcessInput \/ ProcessValidReadings

SpecCgm == InitCgm /\ [][NextCgm]_vars

----------------------------------------------------------------------------
(* The ways a reading reaches the cgm_readings table: the insert tool,
   DatabaseManager.save_cgm_reading and the demo's MockOrchestrator *)

\* rows the table may hold in a run
MaxReadings == 3

\* DatabaseManager.save_cgm_reading(user_id, reading): the new table, or
\* ValueError for a reading outside 0..600 or an unknown user
save_cgm_reading(R, U, uid, v) ==
    IF ~(0 <= v /\ v <= 600) THEN [readings |-> R, raised |-> TRUE]
    ELSE IF uid \notin DOMAIN U THEN [readings |-> R, raised |-> TRUE]
    ELSE [readings |-> Append(R, v), raised |-> FALSE]

RECURSIVE DigitRuns(_, _)
\* re.findall(r'\d+\.?\d*', message) as numbers, for a message without "."
\* (cur is the run of digits being read)
DigitRuns(s, cur) ==
    IF s = << >> THEN (IF cur = << >> THEN << >> ELSE <<DigitsValue(cur)>>)
    ELSE IF IsDigit(Head(s)) THEN DigitRuns(Tail(s), Append(cur, Head(s)))
    ELSE (IF cur = << >> THEN << >> ELSE <<DigitsValue(cur)>>) \o DigitRuns(Tail(s), << >>)

\* MockOrchestrator.handle_message, profile phase (the context is
\* authenticated).  _get_profile gives {} for a user without a row,
\* _update_field swallows its own exceptions, and missing[0] on an empty list
\* raises IndexError out of handle_message.  field_to_update holds one of the
\* names _get_missing_fields returns, so the "in" tests on it are tests for
\* that name.
demo_profile_phase(msg, c, U, R) ==
    LET uid == c["user_id"].n
        required_fields == <<"first_name", "last_name", "city", "date_of_birth", "dietary_preference">>
        missing(T) == IF uid \in DOMAIN T
                      THEN SelectSeq(required_fields, LAMBDA f : ~Truthy(T[uid][f]))
                      ELSE required_fields
        update(f, v) == IF uid \in DOMAIN U THEN [U EXCEPT ![uid][f] = Text(v)] ELSE U
        out(c1, T, k, f, exc) ==
            [ctx |-> c1, users |-> T, readings |-> R, resp |-> k, ask |-> f, raised |-> exc]
        complete(T) == out(Put(Put(c, "profile_complete", TRUE), "awaiting_profile_field", FALSE),
                           T, "demo_complete", "", FALSE)
        \* context["field_to_update"] = missing[0], then the thanks text
        next(T) == IF missing(T) = << >>
                   THEN out(c, T, "", "", TRUE)
                   ELSE out(Put(c, "field_to_update", missing(T)[1]), T,
                            "demo_thanks", missing(T)[1], FALSE)
    IN
    IF Get(c, "awaiting_profile_field", FALSE) /\ Has(c, "field_to_update")
    THEN LET f == c["field_to_update"] IN
         CASE f = "dietary_preference" ->
                  IF \E x \in { <<"v","e","g","a","n">>,
                                <<"v","e","g","e","t","a","r","i","a","n">>,
                                <<"n","o","n","-","v","e","g","e","t","a","r","i","a","n">> } :
                         Contains(x, Lower(msg))
                  THEN LET T == update(f, Lower(msg)) IN
                       IF missing(T) = << >> THEN complete(T) ELSE next(T)
                  ELSE out(c, U, "demo_invalid_diet", "", FALSE)
           [] f \in {"last_name", "city"} -> next(update(f, msg))
           [] f = "date_of_birth" ->
                  IF Cardinality({i \in 1..Len(msg) : msg[i] = "-"}) = 2
                  THEN next(update(f, msg))
                  ELSE out(c, U, "demo_invalid_date", "", FALSE)
           [] OTHER ->
                  LET T == update(f, msg) IN
                  IF missing(T) = << >> THEN complete(T) ELSE next(T)
    ELSE IF missing(U) = << >>
    THEN out(Put(c, "profile_complete", TRUE), U, "demo_greeting_complete", "", FALSE)
    ELSE out(Put(Put(c, "awaiting_profile_field", TRUE), "field_to_update", missing(U)[1]),
             U, "demo_greeting_ask", missing(U)[1], FALSE)

\* MockOrchestrator.handle_message; _add_cgm_reading inserts the value it is
\* given
demo_handle_message(msg, c, U, R) ==
    LET out(c1, R1, k) ==
            [ctx |-> c1, users |-> U, readings |-> R1, resp |-> k, ask |-> "", raised |-> FALSE]
    IN
    IF ~(Has(c, "user_id") /\ c["user_id"].int)
    THEN out(c, R, "demo_auth_error")
    ELSE IF ~Get(c, "profile_complete", FALSE)
    THEN demo_profile_phase(msg, c, U, R)
    ELSE IF ~Get(c, "cgm_collected", FALSE)
    THEN IF Get(c, "awaiting_cgm", FALSE)
         THEN LET toks == SplitComma(msg) IN
              IF \E i \in 1..Len(toks) : ~FloatParses(toks[i])
              THEN out(c, R, "not_understood")
              ELSE IF \A i \in 1..Len(toks) : 70 <= FloatOf(toks[i]) /\ FloatOf(toks[i]) <= 180
              THEN out(Put(Put(c, "cgm_collected", TRUE), "awaiting_cgm", FALSE),
                       R \o [i \in 1..Len(toks) |-> FloatOf(toks[i])], "thanks")
              ELSE out(c, R, "outside_normal_range")
         ELSE out(Put(c, "awaiting_cgm", TRUE), R, "ask_readings")
    ELSE
    LET cgm_keywords == { <<"c","g","m">>, <<"r","e","a","d","i","n","g">>, <<"g","l","u","c","o","s","e">>, <<"b","l","o","o","d"," ","s","u","g","a","r">>, <<"r","a","t","i","n","g">> }
        update_keywords == { <<"n","e","w">>, <<"u","p","d","a","t","e">>, <<"a","d","d">>, <<"e","n","t","e","r">>, <<"r","e","c","o","r","d">> }
    IN
    IF /\ \E k \in cgm_keywords : Contains(k, Lower(msg))
       /\ \/ \E k \in update_keywords : Contains(k, Lower(msg))
          \/ \E i \in 1..Len(msg) : IsDigit(msg[i])
    THEN IF DigitRuns(msg, << >>) # << >>
         THEN out(c, R \o DigitRuns(msg, << >>), "recorded")
         ELSE out(Put(c, "awaiting_cgm", TRUE), R, "ask_readings")
    ELSE IF Contains(<<"p","l","a","n">>, Lower(msg))
    THEN out(c, R, "meal_plan")
    ELSE out(c, R, "menu")

InitStore ==
    /\ ctx \in { MakeContext({IntId(ExistingUser)}, fl, {}) :
                    fl \in {{"profile_complete"}, {"profile_complete", "cgm_collected"}} }
    /\ users = [u \in {ExistingUser} |-> FullRow]
    /\ greeted = {}
    /\ resp = << >>
    /\ calls = {}
    /\ raised = FALSE
    /\ raw = << >>
    /\ sent = << >>
    /\ pre = ctx
    /\ preUsers = users
    /\ lastMsg = << >>
    /\ lastFault = "none"
    /\ fresh = OnlyUserId(ctx)
    /\ nFaults = 0
    /\ op = "init"
    /\ OthersIdle
    /\ field = ""
    /\ value = None
    /\ outcome = NoOutcome
    /\ retry_count = 0
    /\ cgm_readings = << >>
    /\ attempts = << >>
    /\ tool = "function_tool"

\* the insert_cgm_reading tool invoked with a value
InsertCgmReading ==
    \E v \in Inputs.readings :
        /\ attempts' = <<Attempt(v, insert_cgm_reading(v))>>
        /\ raised' = FALSE
        /\ op' = "insert_cgm_reading"
        /\ UNCHANGED <<otherVars, ctx, users, greeted, resp, calls, raw, sent, pre, preUsers, lastMsg,
                       lastFault, fresh, nFaults, field, value, outcome, retry_count,
                       cgm_readings, tool>>

\* DatabaseManager.save_cgm_reading called for an existing or an unknown user
SaveCgmReading ==
    \E v \in Inputs.readings, uid \in {ExistingUser, 2} :
        LET r == save_cgm_reading(cgm_readings, users, uid, v) IN
        /\ Len(r.readings) <= MaxReadings
        /\ cgm_readings' = r.readings
        /\ attempts' = <<Attempt(v, IF r.raised THEN "value_error" ELSE "stored")>>
        /\ raised' = r.raised
        /\ op' = "save_cgm_reading"
        /\ UNCHANGED <<otherVars, ctx, users, greeted, resp, calls, raw, sent, pre, preUsers, lastMsg,
                       lastFault, fresh, nFaults, field, value, outcome, retry_count, tool>>

\* one MockOrchestrator.handle_message call of the demo
DemoHandleMessage ==
    \E msg \in Inputs.demoMessages :
        \E r \in {demo_handle_message(msg, ctx, users, cgm_readings)} :
        /\ Len(r.readings) <= MaxReadings
        /\ ctx' = r.ctx
        /\ users' = r.users
        /\ cgm_readings' = r.readings
        /\ resp' = IF r.raised THEN << >> ELSE <<Part(r.resp, r.ask, FALSE)>>
        /\ raised' = r.raised
        /\ pre' = ctx
        /\ preUsers' = users
        /\ lastMsg' = msg
        /\ attempts' = << >>
        /\ op' = "demo_handle_message"
        /\ UNCHANGED <<otherVars, greeted, calls, raw, sent, lastFault, fresh, nFaults,
                       field, value, outcome, retry_count, tool>>

NextStore == InsertCgmReading \/ SaveCgmReading \/ DemoHandleMessage

SpecStore == InitStore /\ [][NextStore]_vars

----------------------------------------------------------------------------
(* A session of the demo: MockOrchestrator.handle_message called again and
   again on one context, from a context that holds only the user_id, for a
   user with a row in the users table or without one *)

InitDemo ==
    /\ ctx \in { MakeContext({IntId(u)}, {}, {}) : u \in {ExistingUser, 2} }
    /\ users \in { [u \in {ExistingUser} |-> row] : row \in Inputs.demoRows }
    /\ greeted = {}
    /\ resp = << >>
    /\ calls = {}
    /\ raised = FALSE
    /\ raw = << >>
    /\ sent = << >>
    /\ pre = ctx
    /\ preUsers = users
    /\ lastMsg = << >>
    /\ lastFault = "none"
    /\ fresh = OnlyUserId(ctx)
    /\ nFaults = 0
    /\ op = "init"
    /\ OthersIdle
    /\ UnitsIdle

NextDemo == DemoHandleMessage

SpecDemo == InitDemo /\ [][NextDemo]_vars

----------------------------------------------------------------------------
(* Two sessions served by one Orchestrator instance.  Each session owns its
   context; the users table, GreeterProfiler._greeted_users and
   CGMCollector.retry_count belong to the instance.  A call is in flight
   from Call to Return, and the other session may call and return in
   between: what the call read of the shared state may be as old as its
   start, and what it writes lands at its return. *)

\* session s runs for user id s
SessionIds == {1, 2}

\* calls per session
MaxCalls == 3

NoCall == [msg |-> << >>, env |-> Env(NoFault, CgmDefault, MealDefault), U |-> << >>, G |-> {}]

\* each session starts with its user_id alone or with the profile phase
\* skipped; alone is the same session on an Orchestrator of its own
InitSessions ==
    /\ users \in [SessionIds -> { [FullRow EXCEPT !["dietary_preference"] = None], FullRow }]
    /\ greeted = {}
    /\ retry_count = 0
    /\ sessions \in
          { [s \in SessionIds |->
                [ctx |-> MakeContext({IntId(s)}, fl[s], {}), resp |-> << >>, n |-> 0,
                 busy |-> FALSE, call |-> NoCall, overlapped |-> FALSE, invalid |-> 0,
                 alone |-> [ctx |-> MakeContext({IntId(s)}, fl[s], {}), users |-> users,
                           greeted |-> {}, resp |-> << >>]]] :
            fl \in [SessionIds -> {{}, {"profile_complete"}}] }
    /\ ctx = << >>
    /\ resp = << >>
    /\ calls = {}
    /\ raised = FALSE
    /\ raw = << >>
    /\ sent = << >>
    /\ pre = ctx
    /\ preUsers = users
    /\ lastMsg = << >>
    /\ lastFault = "none"
    /\ fresh = FALSE
    /\ nFaults = 0
    /\ op = "init"
    /\ detected = [intent |-> "", confidence |-> 0, raised |-> FALSE]
    /\ reported = << >>
    /\ turn = 0
    /\ inferred = [at |-> << >>, collector |-> "", store |-> ""]
    /\ field = ""
    /\ value = None
    /\ outcome = NoOutcome
    /\ cgm_readings = << >>
    /\ attempts = << >>
    /\ tool = "function_tool"

\* session s calls handle_message: the call is in flight
Call(s) ==
    /\ ~sessions[s].busy
    /\ sessions[s].n < MaxCalls
    /\ \E msg \in {Msg.Hi, Msg.Vegan, Msg.Batch}, e \in EnvsFor(sessions[s].ctx) :
          /\ e.fault \in {NoFault, "greeter_write"}
          /\ sessions' = [sessions EXCEPT ![s].busy = TRUE,
                              ![s].call = [msg |-> msg, env |-> e, U |-> users, G |-> greeted]]
    /\ op' = "call"
    /\ UNCHANGED <<ctx, users, greeted, resp, calls, raised, raw, sent, pre, preUsers, lastMsg,
                   lastFault, fresh, nFaults, detected, reported, turn, inferred, unitVars>>

\* the call of session s returns: its writes reach the shared table and
\* set, its context and response go back to the caller
Return(s) ==
    /\ sessions[s].busy
    /\ LET k == sessions[s].call
           a == sessions[s].alone
       IN
       \E r \in {handle_message(k.msg, sessions[s].ctx, k.U, k.G,
                                k.env.fault, k.env.cgm, k.env.meal)},
          q \in {handle_message(k.msg, a.ctx, a.users, a.greeted,
                                k.env.fault, k.env.cgm, k.env.meal)} :
         /\ users' = [users EXCEPT ![s] = r.users[s]]
         /\ greeted' = greeted \cup (r.greeted \ k.G)
         /\ sessions' = [sessions EXCEPT
                ![s] = [ctx |-> r.ctx, resp |-> r.resp, n |-> @.n + 1,
                        busy |-> FALSE, call |-> NoCall,
                        overlapped |-> @.overlapped \/ k.U # users \/ k.G # greeted,
                        invalid |-> @.invalid,
                        alone |-> [ctx |-> q.ctx, users |-> q.users,
                                   greeted |-> q.greeted, resp |-> q.resp]]]
    /\ op' = "return"
    /\ UNCHANGED <<ctx, resp, calls, raised, raw, sent, pre, preUsers, lastMsg,
                   lastFault, fresh, nFaults, detected, reported, turn, inferred, unitVars>>

\* the session's own run of format-invalid submissions, as long as it matters
Submitted(n, msg) ==
    IF validate_readings_format(msg) THEN 0
    ELSE IF n > MAX_RETRIES THEN n ELSE n + 1

\* a collector that keeps the retry counter of test_invalid_readings_retry_flow
\* in its instance attribute
CollectorInput_InstanceCounter(s) ==
    /\ ~sessions[s].busy
    /\ sessions[s].n < MaxCalls
    /\ \E msg \in {Msg.Batch, Msg.BadBatch}, out \in CgmOutcomes :
          LET bad  == ~validate_readings_format(msg)
              text == IF ~bad THEN <<out>>
                      ELSE IF retry_count < MAX_RETRIES
                      THEN <<Part("cgm_format_prompt", "", FALSE)>>
                      ELSE <<Part("cgm_max_retries", "", FALSE)>>
          IN
          /\ retry_count' = IF bad /\ retry_count < MAX_RETRIES THEN retry_count + 1 ELSE 0
          /\ sessions' = [sessions EXCEPT ![s].resp = text, ![s].alone.resp = text,
                              ![s].n = @ + 1, ![s].invalid = Submitted(@, msg)]
    /\ op' = "process_input"
    /\ UNCHANGED <<ctx, users, greeted, resp, calls, raised, raw, sent, pre, preUsers, lastMsg,
                   lastFault, fresh, nFaults, detected, reported, turn, inferred, field, value, outcome, cgm_readings,
                   attempts, tool>>

\* session s hands a batch to the shared CGMCollector.process_input itself
CollectorInput(s) ==
    /\ ~sessions[s].busy
    /\ sessions[s].n < MaxCalls
    /\ \E msg \in {Msg.Batch, Msg.BadBatch}, out \in CgmOutcomes :
          sessions' = [sessions EXCEPT
                          ![s].resp = CgmProcessInput(msg, sessions[s].ctx, out).resp,
                          ![s].alone.resp = CgmProcessInput(msg, sessions[s].alone.ctx, out).resp,
                          ![s].n = @ + 1, ![s].invalid = Submitted(@, msg)]
    /\ op' = "process_input"
    /\ UNCHANGED <<ctx, users, greeted, resp, calls, raised, raw, sent, pre, preUsers, lastMsg,
                   lastFault, fresh, nFaults, detected, reported, turn, inferred, unitVars>>

NextCollector == \E s \in SessionIds : CollectorInput(s)

\* the two sessions calling the shared CGMCollector directly
SpecCollector == InitSessions /\ [][NextCollector]_vars

NextSessions == \E s \in SessionIds : Call(s) \/ Return(s)

SpecSessions == InitSessions /\ [][NextSessions]_vars

----------------------------------------------------------------------------
(* The session of a cooperative user: the store never fails, every prompt is
   answered with a value valid for the field asked, and in the CGM phase
   the collector answers a well-formed batch with the report of
   _process_valid_readings for a batch whose readings were all saved *)

\* a value the validator accepts for field f
ValidAnswer(f) ==
    CASE f = "email"              -> Msg.Email
      [] f = "date_of_birth"      -> Msg.Date
      [] f = "dietary_preference" -> Msg.Vegan
      [] OTHER                    -> Msg.Bo

\* "Saved n out of n readings for user #1." and the next-step line; the check
\* mark and the long dash of the text are written "+" and "-"
SavedAllReport(n) ==
    LET d == <<"1", "2", "3">>[n] IN
    <<"+"," ","S","a","v","e","d"," ">> \o <<d>> \o <<" ","o","u","t"," ","o","f"," ">> \o <<d>>
    \o <<" ","r","e","a","d","i","n","g","s"," ","f","o","r"," ","u","s","e","r"," ","#","1",".","\n","N","e","x","t",","," ","I"," ","c","a","n"," ","g","e","n","e","r","a","t","e"," ","y","o","u","r"," ","m","e","a","l"," ","p","l","a","n","-","j","u","s","t"," ","l","e","t"," ","m","e"," ","k","n","o","w"," ","w","h","e","n"," ","y","o","u","'","r","e"," ","r","e","a","d","y",".">>

\* the collector's answer as the orchestrator sees it: marked when its
\* lower-cased text holds "success", "thank" or "received"
ReportPart(text) ==
    Part("cgm_report", "", AnyWordIn({<<"s","u","c","c","e","s","s">>, <<"t","h","a","n","k">>,
                                      <<"r","e","c","e","i","v","e","d">>}, Lower(text)))

\* the existing user starts with any part of the profile missing
InitProgress ==
    /\ ctx = MakeContext({IntId(ExistingUser)}, {}, {})
    /\ \E missing \in SUBSET RequiredSet :
          users = [u \in {ExistingUser} |->
                     [f \in ALLOWED_FIELDS |-> IF f \in missing THEN None ELSE FullRow[f]]]
    /\ greeted = {}
    /\ resp = << >>
    /\ calls = {}
    /\ raised = FALSE
    /\ raw = << >>
    /\ sent = << >>
    /\ pre = ctx
    /\ preUsers = users
    /\ lastMsg = << >>
    /\ lastFault = "none"
    /\ fresh = TRUE
    /\ nFaults = 0
    /\ op = "init"
    /\ OthersIdle
    /\ UnitsIdle

\* one handle_message call of the cooperative user
Cooperate ==
    \E msg \in IF op = "init" THEN {Msg.Hi}
                ELSE IF ~Get(ctx, "profile_complete", FALSE)
                THEN {ValidAnswer(AskedField(ctx, users))}
                ELSE IF ~Get(ctx, "cgm_collected", FALSE)
                THEN {<<"9","5">>, Msg.Batch, <<"9",","," ","8",",","7">>}
                ELSE {Msg.Hi, Msg.Batch} :
      \E r \in {handle_message(msg, ctx, users, greeted, NoFault,
                               IF Get(ctx, "awaiting_cgm", FALSE)
                               THEN ReportPart(SavedAllReport(Len(SplitComma(msg))))
                               ELSE CgmDefault,
                               MealDefault)} :
        /\ ctx' = r.ctx
        /\ users' = r.users
        /\ greeted' = r.greeted
        /\ resp' = r.resp
        /\ calls' = r.calls
        /\ raised' = (r.exc # "none")
        /\ raw' = r.raw
        /\ sent' = r.sent
        /\ pre' = ctx
        /\ preUsers' = users
        /\ lastMsg' = msg
        /\ op' = "handle_message"
        /\ turn' = 1 - turn
        /\ UNCHANGED <<detected, sessions, reported, inferred, lastFault, fresh, nFaults, unitVars>>

NextProgress == Cooperate

\* the user keeps calling: handle_message always returns, and every call
\* flips turn
SpecProgress == InitProgress /\ [][NextProgress]_vars /\ WF_turn(turn' = 1 - turn)

----------------------------------------------------------------------------
(* Properties of Orchestrator.handle_message *)

Handled == op = "handle_message"

ProfileComplete(c) == Get(c, "profile_complete", FALSE)

CgmCollected(c) == Get(c, "cgm_collected", FALSE)

Awaiting(c) == Get(c, "awaiting_profile_field", FALSE)

AwaitingCgm(c) == Get(c, "awaiting_cgm", FALSE)

\* the phase derived from the two flags: 1 profile collection, 2 CGM
\* collection, 3 meal planning
Phase(c) == IF ~ProfileComplete(c) THEN 1 ELSE IF ~CgmCollected(c) THEN 2 ELSE 3

\* the context carries an int user_id
HasIntUserId(c) == "user_id" \in DOMAIN c /\ c["user_id"].int

AuthErrorText == <<Part("orch_auth_error", "", FALSE)>>

\* position of a required field in the priority order
Priority(f) == CHOOSE i \in 1..Len(REQUIRED_FIELDS) : REQUIRED_FIELDS[i] = f

\* the required fields missing in the row of user uid
MissingIn(U, uid) == {f \in RequiredSet : ~Truthy(U[uid][f])}

\* the text asks for field f, and asks for no other field
AsksExactly(text, f) ==
    /\ \E i \in 1..Len(text) : text[i].k = "orch_ask" /\ text[i].f = f
    /\ \A i \in 1..Len(text) : text[i].k \in {"orch_ask", "greet_ask"} => text[i].f = f

\* C1: no handle_message call moves the phase backward: profile_complete and
\* cgm_collected never go from true to false, and the phase derived from them
\* never decreases.
C1_PhaseNeverMovesBackward ==
    [][ /\ ProfileComplete(ctx) => ProfileComplete(ctx')
        /\ CgmCollected(ctx) => CgmCollected(ctx')
        /\ Phase(ctx') >= Phase(ctx) ]_vars

\* a call has just advanced the phase
C1_Witness == Handled /\ Phase(pre) = 2 /\ Phase(ctx) = 3

RaisingFaults == {"check", "next", "greeter_connect", "greeter_refresh", "updater_connect"}

\* C3: when a collaborator raises during a call, the context after the call
\* equals the context before it.
C3_FaultLeavesContextUnchanged ==
    (Handled /\ lastFault \in RaisingFaults) => ctx = pre

Uid(c) == c["user_id"].n

\* the missing required field that comes first in the priority order
FirstByPriority(fs) == CHOOSE f \in fs : \A g \in fs : Priority(f) <= Priority(g)

\* the first call of a new session: the context holds only an int user_id
FirstCall == Handled /\ DOMAIN pre = {"user_id"} /\ pre["user_id"].int

\* the context awaits field f and the text asks for it
PromptedFor(f) ==
    /\ Awaiting(ctx)
    /\ "field_to_update" \in DOMAIN ctx /\ ctx["field_to_update"] = f
    /\ \E i \in 1..Len(resp) : resp[i].k = "orch_ask" /\ resp[i].f = f

FieldUpdateCall ==
    /\ Handled /\ HasIntUserId(pre)
    /\ ~ProfileComplete(pre) /\ Awaiting(pre) /\ "field_to_update" \in DOMAIN pre

\* the updater accepted and stored the submitted value
UpdateStored == Len(raw) = 1 /\ raw[1].k = "upd_ok"

\* C6: in a call made while a field is awaited, a stored value leads to
\* profile_complete exactly when nothing is missing any more, and otherwise
\* to a prompt for the next missing field; an update that did not succeed
\* does not clear awaiting_profile_field.
C6_FieldUpdateProtocol ==
    (FieldUpdateCall /\ lastFault = NoFault) =>
        IF UpdateStored
        THEN /\ ProfileComplete(ctx) <=> MissingIn(users, Uid(pre)) = {}
             /\ ProfileComplete(ctx) => ~Awaiting(ctx)
             /\ ~ProfileComplete(ctx) => PromptedFor(FirstByPriority(MissingIn(users, Uid(pre))))
        ELSE Awaiting(ctx) /\ ~ProfileComplete(ctx)

\* a call made in the CGM phase
CgmPhaseCall == Handled /\ HasIntUserId(pre) /\ ProfileComplete(pre) /\ ~CgmCollected(pre)

\* C7: in the CGM phase a call with awaiting_cgm false only sets awaiting_cgm
\* and emits the collector's prompt, without handing the user's message to the
\* collector; a call with awaiting_cgm true hands the message over and sets
\* cgm_collected and clears awaiting_cgm exactly when the collector's text
\* signals success, leaving the context alone otherwise.
C7_CgmTwoStep ==
    CgmPhaseCall =>
        IF ~AwaitingCgm(pre)
        THEN /\ ctx = [k \in (DOMAIN pre) \cup {"awaiting_cgm"} |->
                          IF k = "awaiting_cgm" THEN TRUE ELSE pre[k]]
             /\ sent = <<mStart>>
             /\ resp = raw /\ resp # << >>
        ELSE /\ sent = <<lastMsg>>
             /\ IF \E i \in 1..Len(raw) : raw[i].mark
                THEN CgmCollected(ctx) /\ ~AwaitingCgm(ctx)
                ELSE ctx = pre

\* a call made in the meal-planning phase
MealPhaseCall == Handled /\ HasIntUserId(pre) /\ ProfileComplete(pre) /\ CgmCollected(pre)

\* C8: in the meal-planning phase every call goes to the meal planner and to
\* no other collaborator, returns the planner's text as it is, and leaves the
\* context and the store unchanged.
C8_MealPhasePassThrough ==
    MealPhaseCall =>
        /\ calls = {"meal"}
        /\ sent = << >>
        /\ raw # << >> => resp = raw
        /\ ctx = pre
        /\ users = preUsers

\* the planner's text came back from a meal-phase call
C8_Witness ==
    MealPhaseCall /\ resp = <<Part("meal_text", "", FALSE)>> /\ lastMsg = Msg.Batch

\* the value ProfileUpdater.process_input submits for field f from message m
SubmittedValue(f, m) ==
    IF m = << >> THEN None
    ELSE IF f = "dietary_preference" /\ Strip(m) # << >> THEN Text(DietSynonym(Strip(m)))
    ELSE Text(Strip(m))

\* message m fails validation in context c: an invalid value for the awaited
\* profile field, or a CGM batch that is not comma-separated digits
FailsValidation(c, m) ==
    \/ /\ HasIntUserId(c) /\ ~ProfileComplete(c) /\ Awaiting(c)
       /\ "field_to_update" \in DOMAIN c
       /\ ~validate_field_value(c["field_to_update"], SubmittedValue(c["field_to_update"], m)).ok
    \/ /\ HasIntUserId(c) /\ ProfileComplete(c) /\ ~CgmCollected(c) /\ AwaitingCgm(c)
       /\ ~validate_readings_format(m)

\* C9: two calls in a row with the same message, a message that fails
\* validation, leave the context as it was before the first call and leave
\* the store unchanged (the retry counter is not part of the context).
C9_InvalidTwiceIsIdempotent ==
    [][ (Handled /\ FailsValidation(pre, lastMsg) /\ lastFault = NoFault
           /\ lastMsg' = lastMsg /\ lastFault' = NoFault)
        => (ctx' = pre /\ users' = preUsers) ]_vars

----------------------------------------------------------------------------
(* Properties of TriageAgent.process_input *)

Triaged == op = "process_input"

\* C10: a context without user_id is a hard authentication failure at
\* TriageAgent.process_input as well: no agent is run, specialized or not,
\* and the call does not go on under some user's id.
C10_MissingUserIdIsAuthFailure ==
    (Triaged /\ "user_id" \notin DOMAIN pre)
        => (calls = {} /\ "user_id" \notin DOMAIN ctx)

----------------------------------------------------------------------------
(* Properties of validate_field_value and of the updater's write *)

Validated == op = "validate_field_value"

LegacyValidated == op = "legacy_validate_field_value"

Updated == op = "update_user_profile"

\* the value is a text that is empty once trimmed
EmptyText(v) == ~v.null /\ Strip(v.s) = << >>

RequiredFields == {"first_name", "last_name", "city", "email", "date_of_birth"}

OptionalFields == {"dietary_preference", "medical_conditions", "physical_limitations"}

\* C11: for each required field, validate_field_value (either copy) gives
\* ok = False for the empty string and for a whitespace-only string.
C11_RequiredRejectsBlank ==
    ((Validated \/ LegacyValidated) /\ field \in RequiredFields /\ EmptyText(value))
        => ~outcome.ok

\* C12: for each optional field, validate_field_value on an empty value gives
\* ok = True with a null cleaned value, and the updater then sets the column
\* to NULL instead of storing an empty string.
C12_OptionalEmptyClears ==
    /\ (Validated /\ field \in OptionalFields /\ EmptyText(value))
          => (outcome.ok /\ outcome.value = None /\ ~outcome.raised)
    /\ (Updated /\ field \in OptionalFields /\ EmptyText(value)
          /\ ctx["user_id"].n \in DOMAIN preUsers)
          => (/\ ~raised
              /\ users[ctx["user_id"].n][field] = None
              /\ \A g \in ALLOWED_FIELDS \ {field} :
                    users[ctx["user_id"].n][g] = preUsers[ctx["user_id"].n][g])

\* an optional column that held a text has been cleared by an empty value
C12_Witness ==
    /\ Updated /\ field \in OptionalFields /\ value = Text(Msg.Empty)
    /\ ctx["user_id"].n \in DOMAIN preUsers
    /\ preUsers[ctx["user_id"].n][field] # None
    /\ users[ctx["user_id"].n][field] = None
    /\ outcome.ok /\ outcome.value = None

\* C13: on dietary_preference a text is accepted exactly when, trimmed and
\* lower-cased, it is vegetarian, non-vegetarian or vegan; the cleaned value
\* is that lower-case form; a non-member gets the field's own error.
C13_DietaryCanonical ==
    (Validated /\ field = "dietary_preference" /\ ~value.null)
        => /\ outcome.ok <=> (Lower(Strip(value.s)) \in DietValues)
           /\ outcome.ok => outcome.value = Text(Lower(Strip(value.s)))
           /\ ~outcome.ok => outcome.err = "rule"

\* C14: validate_field_value (either copy) never raises: every failure is a
\* returned (False, message), also for an unknown field name and for a
\* date_of_birth of the right shape that is no calendar date; the updater
\* writes nothing for an unknown field name.
C14_ValidatorNeverRaises ==
    /\ (Validated \/ LegacyValidated) => ~outcome.raised
    /\ (Validated \/ LegacyValidated) /\ field \notin ALLOWED_FIELDS => ~outcome.ok
    /\ (Validated \/ LegacyValidated) /\ field = "date_of_birth" /\ value = Text(Msg.BadDate)
          => ~outcome.ok
    /\ (Updated /\ field \notin ALLOWED_FIELDS) => (users = preUsers /\ ~raised)

----------------------------------------------------------------------------
(* Properties of CGMCollector *)

BatchProcessed == op = "_process_valid_readings"

CollectorAsked == op = "process_input"

\* the readings of the last batch, in input order
BatchValues == [i \in 1..Len(SplitComma(lastMsg)) |-> FloatOf(SplitComma(lastMsg)[i])]

SuccessCount == Cardinality({i \in 1..Len(attempts) : attempts[i].r = "stored"})

ReportedFailures == Cardinality({i \in 1..Len(resp) : resp[i].kind = "reading"})

HasLine(kind) == \E i \in 1..Len(resp) : resp[i].kind = kind

\* C15: for a well-formed batch of n tokens every token is handed to the
\* insert tool exactly once, in input order, whatever the earlier results;
\* the call returns, and successes plus reported failures make n.
C15_EveryTokenAttempted ==
    (BatchProcessed /\ validate_readings_format(lastMsg))
        => /\ ~raised
           /\ Len(attempts) = Len(BatchValues)
           /\ \A i \in 1..Len(attempts) : attempts[i].v = BatchValues[i]
           /\ SuccessCount + ReportedFailures = Len(BatchValues)

FormatPrompt == Part("cgm_format_prompt", "", FALSE)

MaxRetriesText == Part("cgm_max_retries", "", FALSE)

\* C17: a submission that is not comma-separated digits is rejected as a
\* whole by process_input with the format-correction prompt; no reading of
\* it reaches the insert tool or the store.
C17_MalformedRejected ==
    (CollectorAsked /\ ~raised /\ ~validate_readings_format(lastMsg))
        => /\ resp = <<FormatPrompt>>
           /\ attempts = << >>
           /\ cgm_readings = << >>

\* C18: consecutive format-invalid submissions raise retry_count to 1 and 2
\* with the format-correction prompt, the next one gives the maximum-retry
\* message and resets it to 0; always 0 <= retry_count <= MAX_RETRIES.
C18_RetryCounter ==
    [][ /\ (op' = "process_input" /\ ~raised' /\ ~validate_readings_format(lastMsg'))
            => IF retry_count < MAX_RETRIES
               THEN retry_count' = retry_count + 1 /\ resp' = <<FormatPrompt>>
               ELSE retry_count' = 0 /\ resp' = <<MaxRetriesText>>
        /\ retry_count' \in 0..MAX_RETRIES ]_vars

\* C19: retry_count changes only on a format-invalid submission; a
\* well-formed batch leaves it at 0, whether its readings were saved or not.
C19_CounterOnlyAtShapeGate ==
    [][ /\ (op' \in {"process_input", "_process_valid_readings"}
              /\ validate_readings_format(lastMsg'))
            => (retry_count' = 0 /\ retry_count' <= retry_count)
        /\ (retry_count' # retry_count)
            => (op' = "process_input" /\ ~validate_readings_format(lastMsg')) ]_vars

\* a well-formed batch with a reading that was not saved, counter at 0
C19_Witness ==
    /\ BatchProcessed /\ ~raised /\ validate_readings_format(lastMsg)
    /\ \E i \in 1..Len(attempts) : attempts[i].r # "stored"
    /\ retry_count = 0

----------------------------------------------------------------------------
(* Properties of the cgm_readings table *)

\* C20: every reading in the store, whichever path wrote it (the insert
\* tool, save_cgm_reading, the demo's CGM phase or meal-planning phase), has
\* 0 <= value <= 1000; a value outside the bound is not persisted.
C20_StoredReadingsInRange ==
    \A i \in 1..Len(cgm_readings) : 0 <= cgm_readings[i] /\ cgm_readings[i] <= 1000

----------------------------------------------------------------------------
(* Properties of the stored profile *)

\* the rule of a required field, on a stored text
MeetsRule(f, x) ==
    CASE f \in {"first_name", "last_name", "city"} -> Len(Strip(x)) >= 2
      [] f = "email"         -> EmailValidator(x)
      [] f = "date_of_birth" -> DateShape(x)
      [] OTHER               -> TRUE

\* C21: after any sequence of handle_message calls no stored required field
\* holds a value its rule rejects (a name or city under 2 trimmed characters,
\* an email not local@domain.tld, a date not YYYY-MM-DD), the values taken by
\* the greeter on the first call included.
C21_StoredRequiredFieldsValid ==
    \A u \in DOMAIN users : \A f \in RequiredFields :
        ~users[u][f].null => MeetsRule(f, users[u][f].s)

----------------------------------------------------------------------------
(* Properties of detect_intent *)

\* the message holds none of the keywords detect_intent looks for
NoKeyword(m) ==
    \A k \in DOMAIN Keywords : ~AnyWordIn(Keywords[k], Lower(m))

\* C23: detect_intent is total: for every message it returns, without
\* raising, an intent of the fixed intent set with a confidence; an empty or
\* whitespace-only message gives unknown with confidence 0, and a message
\* with no keyword gives unknown with confidence 0.3
C23_DetectIntentTotal ==
    op = "detect_intent" =>
        /\ ~detected.raised
        /\ detected.intent \in UserIntent
        /\ Strip(lastMsg) = << >> => detected.intent = "unknown" /\ detected.confidence = 0
        /\ (Strip(lastMsg) # << >> /\ NoKeyword(lastMsg)) =>
               detected.intent = "unknown" /\ detected.confidence = 30

----------------------------------------------------------------------------
(* Properties of sessions sharing one Orchestrator *)

----------------------------------------------------------------------------
(* Properties of CGMCollector.process_input called directly *)

\* the context carries no user_id that process_input accepts: none, one that
\* is not an int, or 0
NoValidUserId(c) == ~Has(c, "user_id") \/ ~c["user_id"].int \/ c["user_id"].n = 0

\* C26: process_input called with a context that has no valid integer
\* user_id raises the authentication ValueError before any agent run and
\* before any store call, and leaves retry_count unchanged
C26_DirectCallRequiresUserId ==
    [][ (op' = "process_input" /\ NoValidUserId(ctx))
            => /\ raised'
               /\ resp' = << >>
               /\ attempts' = << >>
               /\ cgm_readings' = cgm_readings
               /\ retry_count' = retry_count ]_vars

\* a direct call with user_id 0 or a user_id that is not an int has raised
C26_Witness ==
    /\ CollectorAsked /\ raised
    /\ Has(ctx, "user_id") /\ NoValidUserId(ctx)
    /\ resp = << >> /\ attempts = << >>

----------------------------------------------------------------------------
(* Properties of the completeness checks *)

\* C27: a profile is complete iff the user exists and all six required
\* fields are non-empty, and _check_profile_complete, is_profile_complete
\* and update_profile_status report complete for exactly these profiles;
\* update_profile_status always leaves profile_status a member of ProfileStatus
C27_OneCompletenessPredicate ==
    op = "profile_complete" =>
        LET uid      == ctx["user_id"].n
            complete == uid \in DOMAIN users
                        /\ \A f \in {"first_name", "last_name", "city", "email",
                                     "date_of_birth", "dietary_preference"} :
                               Truthy(users[uid][f])
        IN /\ reported.orchestrator = complete
           /\ reported.database = complete
           /\ ~reported.context.raised
           /\ (reported.context.profile_status = "complete") = complete
           /\ reported.context.profile_status \in ProfileStatus

----------------------------------------------------------------------------
(* Properties of the awaited field *)

\* C28: in a session that started from a context holding only user_id,
\* whenever a call returns with profile_complete false and
\* awaiting_profile_field true, field_to_update is present and names a
\* required field that is missing in the store, also when the user has no row
C28_AwaitedFieldIsMissing ==
    (fresh /\ Handled /\ ~ProfileComplete(ctx) /\ Awaiting(ctx)) =>
        /\ Has(ctx, "field_to_update")
        /\ \E i \in 1..Len(REQUIRED_FIELDS) : ctx["field_to_update"] = REQUIRED_FIELDS[i]
        /\ Uid(ctx) \in DOMAIN users => ~Truthy(users[Uid(ctx)][ctx["field_to_update"]])

----------------------------------------------------------------------------
(* Properties of the CGM phase *)

\* C29: handle_message sets cgm_collected only when the collector persisted
\* at least one reading of that message: a response that reports a failure
\* never advances the phase, and once a call has set cgm_collected the store
\* holds at least one reading
C29_CollectedMeansStored ==
    (Handled /\ ~CgmCollected(pre) /\ CgmCollected(ctx)) =>
        /\ cgm_readings # << >>
        /\ \A i \in 1..Len(raw) : raw[i].k # "cgm_sorry"

----------------------------------------------------------------------------
(* Progress *)

\* C30: from a context holding only the user_id of an existing user, with a
\* store that never fails, a user who answers every prompt with a valid
\* value and then sends a well-formed batch whose readings are all saved,
\* repeated handle_message calls eventually reach the meal planning phase:
\* profile_complete and cgm_collected both true
C30_ReachesMealPlanning == <>(ProfileComplete(ctx) /\ CgmCollected(ctx))

----------------------------------------------------------------------------
(* Properties of the phase order within one call *)

\* the call moved the session out of the profile phase
CompletedProfile == Handled /\ ~ProfileComplete(pre) /\ ProfileComplete(ctx)

\* C31: one handle_message call advances the phase by at most one step: no
\* call sets both profile_complete and cgm_collected, and the call that sets
\* profile_complete neither invokes the CGM collector nor hands it a message
\* and leaves awaiting_cgm and cgm_collected as they were
C31_OnePhasePerCall ==
    /\ Handled => ~(CompletedProfile /\ ~CgmCollected(pre) /\ CgmCollected(ctx))
    /\ CompletedProfile =>
        /\ "cgm" \notin calls
        /\ sent = << >>
        /\ Has(ctx, "awaiting_cgm") = Has(pre, "awaiting_cgm")
        /\ AwaitingCgm(ctx) = AwaitingCgm(pre)
        /\ Has(ctx, "cgm_collected") = Has(pre, "cgm_collected")
        /\ CgmCollected(ctx) = CgmCollected(pre)

\* a call completed the profile from a context that held only the user_id
C31_Witness == CompletedProfile /\ fresh /\ ~Has(ctx, "awaiting_cgm")

----------------------------------------------------------------------------
(* Properties of the awaiting_cgm flag *)

\* C32: in every state reached from a context that held only user_id,
\* awaiting_cgm = true implies profile_complete = true and cgm_collected =
\* false, in the Orchestrator and in the demo's MockOrchestrator alike, also
\* after a CGM update request made in the meal planning phase
C32_AwaitingCgmMeansCgmPhase ==
    (fresh /\ AwaitingCgm(ctx)) => (ProfileComplete(ctx) /\ ~CgmCollected(ctx))

----------------------------------------------------------------------------
(* Properties of a failed save of a profile field *)

\* the ProfileUpdater's save failed in the store: the user has no row, the
\* UPDATE raised sqlite3.Error, or the connection could not be opened
UpdaterSaveFailed ==
    /\ FieldUpdateCall
    /\ \/ Len(raw) = 1 /\ raw[1].k \in {"upd_no_user", "upd_db_error"}
       \/ raw = << >> /\ lastFault = "updater_connect" /\ calls = {"updater"}

\* the GreeterProfiler took the message for the first missing field and its
\* UPDATE failed: it raised, or it matched no row
GreeterSaveFailed ==
    /\ Handled /\ HasIntUserId(pre) /\ Uid(pre) > 0 /\ ~ProfileComplete(pre)
    /\ ~(Awaiting(pre) /\ Has(pre, "field_to_update"))
    /\ lastFault = "greeter_write" \/ (lastFault = NoFault /\ Uid(pre) \notin DOMAIN preUsers)
    /\ lastMsg # << >> /\ Strip(lastMsg) # << >> /\ Lower(lastMsg) \notin Greetings
    /\ LET missing == get_missing_fields(ProfileOf(preUsers, Uid(pre))) IN
       missing # << >> /\ ~GreeterUpdate(missing[1], lastMsg).null

\* the text reports a failure and holds no thanks or success sentence
ReportsFailure(text) ==
    /\ \E i \in 1..Len(text) :
           text[i].k \in {"upd_no_user", "upd_db_error", "orch_db_error", "orch_unexpected"}
    /\ \A i \in 1..Len(text) :
           ~text[i].mark /\ text[i].k \notin {"upd_ok", "greet_thanks", "orch_complete"}

\* C33: a store failure while saving a profile field is never treated as a
\* successful update: the response is an error message and no thanks or
\* success text, and awaiting_profile_field and field_to_update keep the
\* values they had before the call
C33_SaveFailureIsNotSuccess ==
    (UpdaterSaveFailed \/ GreeterSaveFailed) =>
        /\ ReportsFailure(resp)
        /\ Has(ctx, "awaiting_profile_field") = Has(pre, "awaiting_profile_field")
        /\ Awaiting(ctx) = Awaiting(pre)
        /\ Has(ctx, "field_to_update") = Has(pre, "field_to_update")
        /\ Has(pre, "field_to_update") => ctx["field_to_update"] = pre["field_to_update"]
        /\ ~ProfileComplete(ctx)

----------------------------------------------------------------------------
(* GreeterProfiler.process_input called message after message for one user,
   as in test_incomplete_profile_flow: the context holds the user_id and
   nothing else is read from it.  In between, the completeness queries of
   the store may be asked about the user. *)

InitGreeter ==
    /\ ctx \in { MakeContext({IntId(u)}, {}, {}) : u \in {ExistingUser, 2} }
    /\ users \in { [u \in {ExistingUser} |-> row] : row \in Inputs.rows }
    /\ greeted = {}
    /\ resp = << >>
    /\ calls = {}
    /\ raised = FALSE
    /\ raw = << >>
    /\ sent = << >>
    /\ pre = ctx
    /\ preUsers = users
    /\ lastMsg = << >>
    /\ lastFault = "none"
    /\ fresh = OnlyUserId(ctx)
    /\ nFaults = 0
    /\ op = "init"
    /\ OthersIdle
    /\ UnitsIdle

\* one GreeterProfiler.process_input call; the UPDATE may fail once
GreeterInput ==
    \E msg \in Inputs.greeterMessages, fault \in {NoFault, "greeter_write"} :
      \E r \in {GreeterProcessInput(msg, ctx, users, greeted, fault)} :
        /\ fault = NoFault
              \/ /\ nFaults < MaxFaults
                 /\ r # GreeterProcessInput(msg, ctx, users, greeted, NoFault)
        /\ nFaults' = IF fault = NoFault THEN nFaults ELSE nFaults + 1
        /\ users' = r.users
        /\ greeted' = r.greeted
        /\ resp' = r.resp
        /\ raised' = r.raised
        /\ pre' = ctx
        /\ preUsers' = users
        /\ lastMsg' = msg
        /\ lastFault' = fault
        /\ op' = "greeter_process_input"
        /\ UNCHANGED <<otherVars, ctx, calls, raw, sent, fresh, unitVars>>

\* a GreeterProfiler.process_input call, or the store asked whether the
\* user's profile is complete
NextGreeter == GreeterInput \/ ReportComplete

SpecGreeter == InitGreeter /\ [][NextGreeter]_vars

\* a process_input call for a user who has a row, with a store that works
Greeted == op = "greeter_process_input" /\ lastFault = NoFault /\ Uid(pre) \in DOMAIN preUsers

\* the order in which the greeter fills the profile
FillOrder == <<"first_name", "last_name", "city", "email", "date_of_birth", "dietary_preference">>

\* the fields of the order that the row lacks, in that order
StillMissing(row) == SelectSeq(FillOrder, LAMBDA f : ~Truthy(row[f]))

\* the input is a greeting or holds nothing
IsGreetingOrBlank(msg) == Strip(msg) = << >> \/ Lower(msg) \in {<<"h","i">>, <<"h","e","l","l","o">>, <<"h","e","y">>}

\* the input is rejected for field f
RejectedFor(f, msg) ==
    \/ f = "dietary_preference" /\ Lower(Strip(msg)) \notin DietValues
    \/ f = "email" /\ ~Contains(<<"@">>, msg)
    \/ f = "date_of_birth" /\ ~Contains(<<"-">>, msg)

\* C34: GreeterProfiler.process_input fills the profile one field per message
\* in the order first_name, last_name, city, email, date_of_birth,
\* dietary_preference: an input that is no greeting is written to the first
\* missing field and to no other, an input rejected for that field is not
\* written, the reply asks for the first field still missing and for no
\* other, and it reports the profile complete exactly when nothing is missing
C34_GreeterFillsInOrder ==
    Greeted =>
        LET uid    == Uid(pre)
            before == StillMissing(preUsers[uid])
            after  == StillMissing(users[uid])
            taken  == /\ ~IsGreetingOrBlank(lastMsg) /\ before # << >>
                      /\ ~RejectedFor(before[1], lastMsg)
        IN
        /\ taken =>
              users[uid] = [preUsers[uid] EXCEPT ![before[1]] =
                               Text(IF before[1] = "dietary_preference"
                                    THEN Lower(Strip(lastMsg)) ELSE Strip(lastMsg))]
        /\ ~taken => users = preUsers
        /\ taken => after = Tail(before)
        /\ after # << >> =>
              /\ \E i \in 1..Len(resp) : resp[i].k = "greet_ask" /\ resp[i].f = after[1]
              /\ \A i \in 1..Len(resp) : resp[i].k = "greet_ask" => resp[i].f = after[1]
        /\ (\E i \in 1..Len(resp) : resp[i].k = "greet_complete") <=> after = << >>

\* an input for the e-mail address was rejected, nothing was written and the
\* address is asked again
C34_Witness ==
    /\ Greeted /\ ~IsGreetingOrBlank(lastMsg)
    /\ StillMissing(preUsers[Uid(pre)]) # << >>
    /\ StillMissing(preUsers[Uid(pre)])[1] = "email"
    /\ RejectedFor("email", lastMsg)
    /\ users = preUsers
    /\ \E i \in 1..Len(resp) : resp[i].k = "greet_ask" /\ resp[i].f = "email"

----------------------------------------------------------------------------
(* Properties of the demo's profile phase *)

DemoCall == op = "demo_handle_message"

\* the fields the demo requires that the row lacks
DemoMissing(row) ==
    {f \in {"first_name", "last_name", "city", "date_of_birth", "dietary_preference"} :
        ~Truthy(row[f])}

\* the message is a value the demo takes for field f
DemoTakes(f, msg) ==
    /\ msg # << >>
    /\ f = "date_of_birth" => Cardinality({i \in 1..Len(msg) : msg[i] = "-"}) = 2
    /\ f = "dietary_preference" => Contains(<<"v","e","g","a","n">>, Lower(msg))

\* the call supplied a value for the awaited field, the only field missing
AnsweredLastField ==
    /\ DemoCall /\ ~ProfileComplete(pre) /\ Awaiting(pre) /\ Has(pre, "field_to_update")
    /\ Uid(pre) \in DOMAIN preUsers
    /\ DemoMissing(preUsers[Uid(pre)]) = {pre["field_to_update"]}
    /\ DemoTakes(pre["field_to_update"], lastMsg)

\* C35: in the demo, a value supplied for the awaited field when it is the
\* last missing required field sets profile_complete and returns a response
\* without raising, whichever field is last; and no call leaves the session
\* in the profile phase with no field missing
C35_LastFieldCompletesProfile ==
    /\ AnsweredLastField => (~raised /\ resp # << >> /\ ProfileComplete(ctx))
    /\ (DemoCall /\ Uid(ctx) \in DOMAIN users /\ ~ProfileComplete(ctx)) =>
           DemoMissing(users[Uid(ctx)]) # {}

----------------------------------------------------------------------------
(* The reading type inferred from the time of day, by the CGM collector and
   by DatabaseManager.save_cgm_reading *)

\* MEAL_TIMES, in the order of the dict: (start, end) as datetime.time values
\* <<hour, minute, second>>
MEAL_TIMES ==
    << [meal |-> "breakfast", start |-> <<6, 0, 0>>,  end |-> <<10, 59, 0>>],
       [meal |-> "lunch",     start |-> <<11, 0, 0>>, end |-> <<15, 59, 0>>],
       [meal |-> "dinner",    start |-> <<16, 0, 0>>, end |-> <<21, 59, 0>>] >>

\* _infer_reading_type(timestamp): the first band with start <= time <= end,
\* datetime.time values compared as hour, minute, second; "snack" otherwise
infer_reading_type(timestamp) ==
    LET secs(t) == (t[1] * 60 + t[2]) * 60 + t[3]
        hits == {i \in 1..Len(MEAL_TIMES) :
                    /\ secs(MEAL_TIMES[i].start) <= secs(timestamp)
                    /\ secs(timestamp) <= secs(MEAL_TIMES[i].end)}
    IN IF hits = {} THEN "snack"
       ELSE MEAL_TIMES[CHOOSE i \in hits : \A j \in hits : i <= j].meal

\* the inference of save_cgm_reading when no reading_type is given: by
\* timestamp.hour alone
save_cgm_reading_type(timestamp) ==
    LET hour == timestamp[1] IN
    IF 5 <= hour /\ hour < 11 THEN "breakfast"
    ELSE IF 11 <= hour /\ hour < 16 THEN "lunch"
    ELSE IF 16 <= hour /\ hour < 22 THEN "dinner"
    ELSE "snack"

\* a reading taken at some time of day, its type not yet inferred
InitInfer ==
    /\ ctx = MakeContext({IntId(ExistingUser)}, {}, {})
    /\ users = [u \in {ExistingUser} |-> FullRow]
    /\ greeted = {}
    /\ resp = << >>
    /\ calls = {}
    /\ raised = FALSE
    /\ raw = << >>
    /\ sent = << >>
    /\ pre = ctx
    /\ preUsers = users
    /\ lastMsg = << >>
    /\ lastFault = "none"
    /\ fresh = OnlyUserId(ctx)
    /\ nFaults = 0
    /\ op = "init"
    /\ detected = [intent |-> "", confidence |-> 0, raised |-> FALSE]
    /\ sessions = << >>
    /\ reported = << >>
    /\ turn = 0
    /\ inferred \in { [at |-> t, collector |-> "", store |-> ""] : t \in Inputs.timestamps }
    /\ UnitsIdle

\* both inferences applied to the timestamp
InferReadingType ==
    /\ op = "init"
    /\ inferred' = [inferred EXCEPT !.collector = infer_reading_type(inferred.at),
                                    !.store = save_cgm_reading_type(inferred.at)]
    /\ op' = "infer_reading_type"
    /\ UNCHANGED <<ctx, users, greeted, resp, calls, raised, raw, sent, pre, preUsers, lastMsg,
                   lastFault, fresh, nFaults, detected, sessions, reported, turn, unitVars>>

NextInfer == InferReadingType

SpecInfer == InitInfer /\ [][NextInfer]_vars

\* the band of the time of day, minute by minute: 06:00-10:59 breakfast,
\* 11:00-15:59 lunch, 16:00-21:59 dinner, any other time snack
Band(t) ==
    LET minute == t[1] * 60 + t[2] IN
    IF 6 * 60 <= minute /\ minute <= 10 * 60 + 59 THEN "breakfast"
    ELSE IF 11 * 60 <= minute /\ minute <= 15 * 60 + 59 THEN "lunch"
    ELSE IF 16 * 60 <= minute /\ minute <= 21 * 60 + 59 THEN "dinner"
    ELSE "snack"

\* C36: the reading type is a function of the time of day that follows the
\* bands, every whole minute of a band, its last one included, mapped to
\* that band, and _infer_reading_type and save_cgm_reading give every
\* timestamp the same type
C36_ReadingTypeFollowsBands ==
    op = "infer_reading_type" =>
        /\ inferred.collector = Band(inferred.at)
        /\ inferred.store = Band(inferred.at)
        /\ inferred.collector = inferred.store

----------------------------------------------------------------------------
(* Properties of the completeness queries of the store *)

\* C37: is_profile_complete(user_id) is true exactly when
\* get_next_missing_profile_field(user_id) returns None, also for a user_id
\* without a record
C37_CompleteIffNothingMissing ==
    op = "profile_complete" => (reported.database <=> reported.next_missing = NoField)

----------------------------------------------------------------------------
(* Properties of the routing of TriageAgent.process_input *)

\* the handler a message is meant for, by what it is about: a greeting, the
\* profile, glucose or CGM readings, a meal; anything else, and an empty
\* message, stays with the triage agent
HandlerFor(msg) ==
    IF Strip(msg) = << >> THEN TriageName
    ELSE IF AnyWordIn(Keywords.greeting, Lower(msg)) THEN "greeter_profiler"
    ELSE IF AnyWordIn(Keywords.profile, Lower(msg)) THEN "profile_updater"
    ELSE IF AnyWordIn(Keywords.cgm, Lower(msg)) THEN "cgm_collector"
    ELSE IF AnyWordIn(Keywords.meal, Lower(msg)) THEN "meal_planner"
    ELSE TriageName

\* C38: every classified intent selects its specialized handler: a greeting
\* the greeter, a profile query or update the profile updater, a message on
\* glucose or CGM readings the CGM collector, a meal message the meal
\* planner, and only an unknown or empty message the triage agent itself;
\* and every label detect_intent returns is a key of the routing table
C38_IntentSelectsHandler ==
    /\ Triaged => calls = {HandlerFor(lastMsg)}
    /\ op = "detect_intent" => detected.intent \in intent_to_agent_keys

\* C39: process_input routes a message by the intent of that same message:
\* the handler chosen is the one chosen whatever detected_intent the
\* guardrail had stored in the context during the call before
C39_RoutingIgnoresStoredIntent ==
    Triaged =>
        \A i \in UserIntent :
            process_input(lastMsg, Put(pre, "detected_intent", i), "final_output").calls = calls

====
